---- MODULE Spec2Model ----
(***************************************************************************)
(* Day-by-day portfolio simulator of FinPack (backtest/engine.py) with the *)
(* Money / FX value types (core/currency.py) and the ranking helpers of    *)
(* the indicator engine (core/indicator.py).                               *)
(*                                                                         *)
(* Numbers.  The code computes with binary floats; the model computes with *)
(* exact rationals.  A Money amount is the fraction amount/den counted in  *)
(* thousandths of a currency unit (Milli), so that a fee of 0.3 % of an    *)
(* integer amount is an integer.  Prices and FX rates are whole units.     *)
(* Sharpe scores are integers in tenths (threshold 0.5 is 5).              *)
(*                                                                         *)
(* The price matrix and the score matrix are inputs of a run.  The engine  *)
(* on day idx reads only rows 0..idx, so the model reveals one row per     *)
(* day (at the start of the day) instead of fixing the matrix in Init.     *)
(***************************************************************************)
EXTENDS Integers, Sequences, FiniteSets, TLC

\* ------------------------------------------------------------------ bounds
\* Number of trading days of the price matrix that a run simulates.
MaxDays == 3

\* ---------------------------------------------------------- generic helpers
Max(a, b) == IF a >= b THEN a ELSE b

Min(a, b) == IF a <= b THEN a ELSE b

Abs(a) == IF a < 0 THEN -a ELSE a

Range(s) == {s[i] : i \in 1..Len(s)}

\* s[:n] of Python (n >= 0)
Take(s, n) == SubSeq(s, 1, Min(n, Len(s)))

\* s[a:b] of Python (0-based, half-open, 0 <= a)
Slice(s, a, b) == SubSeq(s, a + 1, Min(b, Len(s)))

\* list.index(x), 0-based, -1 when absent
IndexOf(s, x) ==
    IF \E i \in 1..Len(s) : s[i] = x
    THEN (CHOOSE i \in 1..Len(s) : s[i] = x /\ \A j \in 1..(i - 1) : s[j] # x) - 1
    ELSE -1

RECURSIVE SeqSum(_)
SeqSum(s) == IF s = <<>> THEN 0 ELSE Head(s) + SeqSum(Tail(s))

RECURSIVE GCD(_, _)
GCD(a, b) == IF b = 0 THEN a ELSE GCD(b, a % b)

\* floor of the rational n/d, d > 0 (TLA+ \div rounds toward minus infinity)
FloorDiv(n, d) == n \div d

\* ------------------------------------------------------------ core/currency
\* amounts are counted in 1/Milli of a currency unit
Milli == 1000

\* FX.DEFAULT_RATE = 32.0
DEFAULT_RATE == 32

\* Money(amount, currency); the value is amount/den thousandths
Money(n, d, c) ==
    LET g == GCD(Abs(n), d)
    IN  [amount |-> n \div g, den |-> d \div g, currency |-> c]

twd(units) == Money(units * Milli, 1, "TWD")

usd(units) == Money(units * Milli, 1, "USD")

\* raise CurrencyMismatchError: the value of an operation that raised
MismatchValue == [amount |-> 0, den |-> 1, currency |-> "CurrencyMismatchError"]

IsRaised(m) == m.currency = "CurrencyMismatchError"

\* variant: no currency test
SameCurrency_any(a, b) == TRUE

\* the currency test that guards +, -, <, > and Money / Money
SameCurrency(a, b) ==
    /\ ~IsRaised(a)
    /\ ~IsRaised(b)
    /\ a.currency = b.currency

MoneyAdd(a, b) ==
    IF ~SameCurrency(a, b) THEN MismatchValue
    ELSE Money(a.amount * b.den + b.amount * a.den, a.den * b.den, a.currency)

MoneySub(a, b) ==
    IF ~SameCurrency(a, b) THEN MismatchValue
    ELSE Money(a.amount * b.den - b.amount * a.den, a.den * b.den, a.currency)

\* Money * (p/q): multiplication by a scalar keeps the currency
MoneyMul(a, p, q) ==
    IF IsRaised(a) THEN MismatchValue
    ELSE Money(a.amount * p, a.den * q, a.currency)

\* Money / n for a scalar n
MoneyDiv(a, n) == MoneyMul(a, 1, n)

\* a < b on amounts (the caller tests SameCurrency first, as __lt__ does)
MoneyLt(a, b) == a.amount * b.den < b.amount * a.den

MoneyGt(a, b) == MoneyLt(b, a)

\* the outcome of a call: the value returned, or the exception raised
Returned(v) == [raised |-> "", value |-> v]

RaisedError(e) == [raised |-> e]

\* Money.__eq__: same currency and abs(difference) < 1e-6 currency units
Money_eq(a, b) ==
    /\ a.currency = b.currency
    /\ Abs(a.amount * b.den - b.amount * a.den) * 1000 < a.den * b.den

\* Money.__add__ and Money.__sub__ as outcomes
Money_add(a, b) ==
    IF IsRaised(MoneyAdd(a, b)) THEN RaisedError("CurrencyMismatchError")
    ELSE Returned(MoneyAdd(a, b))

Money_sub(a, b) ==
    IF IsRaised(MoneySub(a, b)) THEN RaisedError("CurrencyMismatchError")
    ELSE Returned(MoneySub(a, b))

\* Money.__lt__
Money_lt(a, b) ==
    IF ~SameCurrency(a, b) THEN RaisedError("CurrencyMismatchError")
    ELSE Returned(MoneyLt(a, b))

\* Money.__gt__
Money_gt(a, b) ==
    IF ~SameCurrency(a, b) THEN RaisedError("CurrencyMismatchError")
    ELSE Returned(MoneyGt(a, b))

\* Money.__le__: self == other or self < other
Money_le(a, b) == IF Money_eq(a, b) THEN Returned(TRUE) ELSE Money_lt(a, b)

\* Money.__ge__: self == other or self > other
Money_ge(a, b) == IF Money_eq(a, b) THEN Returned(TRUE) ELSE Money_gt(a, b)

\* Money.__truediv__ by a Money: the ratio of the amounts, as the pair
\* <<numerator, denominator>>
Money_truediv(a, b) ==
    IF ~SameCurrency(a, b) THEN RaisedError("CurrencyMismatchError")
    ELSE IF b.amount = 0 THEN RaisedError("ZeroDivisionError")
    ELSE Returned(<<a.amount * b.den, b.amount * a.den>>)

\* variant: no look-back to an earlier date
FXrate_no_lookback(history, date) ==
    IF date \in DOMAIN history THEN history[date] ELSE DEFAULT_RATE

\* FX.rate(date): exact date, else the latest date at or before, else default.
\* history is a function from a set of day indexes to rates.
FXrate(history, date) ==
    IF date \in DOMAIN history THEN history[date]
    ELSE IF \E d \in DOMAIN history : d <= date
         THEN history[CHOOSE d \in DOMAIN history :
                         d <= date /\ \A e \in DOMAIN history : e <= date => e <= d]
         ELSE DEFAULT_RATE

\* variant: no conversion, the amount keeps its currency
to_twd_unconverted(history, m, date) == m

to_twd(history, m, date) ==
    IF m.currency = "TWD" THEN m
    ELSE IF IsRaised(m) THEN m
    ELSE Money(m.amount * FXrate(history, date), m.den, "TWD")

to_usd(history, m, date) ==
    IF m.currency = "USD" THEN m
    ELSE IF IsRaised(m) THEN m
    ELSE Money(m.amount, m.den * FXrate(history, date), "USD")


\* ---------------------------------------------------- market data (inputs)
\* columns of the price matrix, in column order
Symbols == <<"AAPL", "MSFT", "2330.TW", "^GSPC", "XNEW">>

SymbolSet == Range(Symbols)

\* stock_info: symbol -> {country, industry}
stock_info ==
    [s \in SymbolSet |->
        CASE s = "AAPL"    -> [country |-> "US", industry |-> "Technology"]
          [] s = "MSFT"    -> [country |-> "US", industry |-> "Technology"]
          [] s = "2330.TW" -> [country |-> "TW", industry |-> "Semiconductors"]
          [] s = "^GSPC"   -> [country |-> "US", industry |-> "Market Index"]
          [] OTHER         -> [country |-> "US", industry |-> "Retail"]]

\* a row of the price matrix (whole currency units): the prices of AAPL and
\* 2330.TW vary from day to day, the other columns are flat
PriceRow(aapl, tsmc) ==
    [s \in SymbolSet |->
        CASE s = "AAPL"    -> aapl
          [] s = "MSFT"    -> 10
          [] s = "2330.TW" -> tsmc
          [] s = "^GSPC"   -> 10
          [] OTHER         -> 5]

\* np.nan: an undefined score, rank or growth (never compared as a number)
NaN == -99999

\* a row of the score matrix (tenths).  After the bfill/ffill of
\* _calculate_sharpe_matrix a score is undefined only when the whole column
\* is: XNEW has no score on any day.
SharpeRow(aapl, msft) ==
    [s \in SymbolSet |->
        CASE s = "AAPL"    -> aapl
          [] s = "MSFT"    -> msft
          [] s = "2330.TW" -> 10
          [] s = "^GSPC"   -> 10
          [] OTHER         -> NaN]

\* the rows a day may bring
PriceRows == {PriceRow(20, 50), PriceRow(10, 100)}

SharpeRows == {SharpeRow(a, b) : a \in {-10, 20}, b \in {-10, 20}}

\* core/config.py
NON_TRADABLE_INDUSTRIES == {"Market Index", "Index"}

\* core/config.py FEES: rate in thousandths, min_fee in currency units
FEES ==
    [us |-> [rate |-> 3, min_fee |-> 15],
     tw |-> [rate |-> 6, min_fee |-> 0]]

\* ----------------------------------------------------------- core/indicator
\* stable sort of a sequence of symbols by key[s], descending:
\* sorted(..., key=..., reverse=True) keeps equal keys in their given order
RECURSIVE SortDesc(_, _)
SortDesc(s, key) ==
    IF s = <<>> THEN <<>>
    ELSE LET i == CHOOSE i \in 1..Len(s) :
                     /\ \A j \in 1..Len(s) : key[s[j]] <= key[s[i]]
                     /\ \A j \in 1..(i - 1) : key[s[j]] < key[s[i]]
             rest == [j \in 1..(Len(s) - 1) |-> IF j < i THEN s[j] ELSE s[j + 1]]
         IN  <<s[i]>> \o SortDesc(rest, key)

\* subsequence of s of the elements that satisfy the set membership
RECURSIVE FilterSeq(_, _)
FilterSeq(s, keep) ==
    IF s = <<>> THEN <<>>
    ELSE IF Head(s) \in keep THEN <<Head(s)>> \o FilterSeq(Tail(s), keep)
         ELSE FilterSeq(Tail(s), keep)

\* variant: rank(ascending=False, method='max')
RankRow_max(row) ==
    [s \in SymbolSet |->
        IF row[s] = NaN THEN NaN
        ELSE Cardinality({t \in SymbolSet : row[t] # NaN /\ row[t] >= row[s]})]

\* calculate_ranking_matrix, one row: rank(ascending=False, method='min')
RankRow(row) ==
    [s \in SymbolSet |->
        IF row[s] = NaN THEN NaN
        ELSE 1 + Cardinality({t \in SymbolSet : row[t] # NaN /\ row[t] > row[s]})]

\* Indicators.rank.iloc[i], i 0-based, over the score matrix m
rank_at(m, i) == RankRow(m[i + 1])

\* calculate_ranking_matrix: the matrix of the ranks, row by row (an empty
\* matrix gives an empty matrix)
calculate_ranking_matrix(sharpe_matrix) ==
    [i \in 1..Len(sharpe_matrix) |-> rank_at(sharpe_matrix, i - 1)]

\* calculate_growth_matrix, one row: ranking_matrix.shift(1) - ranking_matrix
growth_at(m, i) ==
    [s \in SymbolSet |->
        IF i = 0 THEN NaN
        ELSE IF rank_at(m, i - 1)[s] = NaN \/ rank_at(m, i)[s] = NaN THEN NaN
        ELSE rank_at(m, i - 1)[s] - rank_at(m, i)[s]]

\* compute_daily_ranks_by_country, one row and one country
ranks_by_country(row, country) ==
    SortDesc(FilterSeq(Symbols,
                       {t \in SymbolSet : row[t] # NaN /\ stock_info[t].country = country}),
             row)

\* Indicators.sharpe_rank_by_country[date][country]
sharpe_rank_by_country(m, i, country) ==
    IF i < 0 \/ i >= Len(m) THEN <<>> ELSE ranks_by_country(m[i + 1], country)

\* Indicators.growth_rank_by_country[date][country]
growth_rank_by_country(m, i, country) ==
    IF i < 0 \/ i >= Len(m) THEN <<>> ELSE ranks_by_country(growth_at(m, i), country)

get_sharpe(m, symbol, i) == m[i + 1][symbol]

get_growth(m, symbol, i) == growth_at(m, i)[symbol]

check_in_sharpe_top_k(m, symbol, i, country, top_k) ==
    symbol \in Range(Take(sharpe_rank_by_country(m, i, country), top_k))

check_in_growth_top_k(m, symbol, i, country, top_k) ==
    symbol \in Range(Take(growth_rank_by_country(m, i, country), top_k))

get_sharpe_rank_position(m, symbol, i, country) ==
    IndexOf(sharpe_rank_by_country(m, i, country), symbol)

get_growth_rank_position(m, symbol, i, country) ==
    IndexOf(growth_rank_by_country(m, i, country), symbol)

\* math.ceil(n * percentile / 100)
CeilPct(n, percentile) == (n * percentile + 99) \div 100

\* variant: the cut-off one entry short
check_in_growth_top_percentile_short(m, symbol, i, country, percentile) ==
    LET ranking == growth_rank_by_country(m, i, country)
    IN  IF ranking = <<>> THEN FALSE
        ELSE symbol \in Range(Take(ranking, Max(1, CeilPct(Len(ranking), percentile)) - 1))

check_in_growth_top_percentile(m, symbol, i, country, percentile) ==
    LET ranking == growth_rank_by_country(m, i, country)
    IN  IF ranking = <<>> THEN FALSE
        ELSE symbol \in Range(Take(ranking, Max(1, CeilPct(Len(ranking), percentile))))

check_growth_streak(m, symbol, i, days, percentile) ==
    IF i < days - 1 THEN FALSE
    ELSE \A k \in 0..(days - 1) :
            /\ i - k >= 0
            /\ i - k < Len(m)
            /\ check_in_growth_top_percentile(m, symbol, i - k,
                                              stock_info[symbol].country, percentile)

\* variant: only the last day is looked at
check_sharpe_streak_last_day(m, symbol, i, days, top_n) ==
    check_in_sharpe_top_k(m, symbol, i, stock_info[symbol].country, top_n)

check_sharpe_streak(m, symbol, i, days, top_n) ==
    IF i < days - 1 THEN FALSE
    ELSE \A k \in 0..(days - 1) :
            /\ i - k >= 0
            /\ i - k < Len(m)
            /\ check_in_sharpe_top_k(m, symbol, i - k, stock_info[symbol].country, top_n)


\* calculate_growth_matrix: ranking_matrix.shift(1) - ranking_matrix
calculate_growth_matrix(ranking_matrix) ==
    [i \in 1..Len(ranking_matrix) |->
        [s \in SymbolSet |->
            IF i = 1 THEN NaN
            ELSE IF ranking_matrix[i - 1][s] = NaN \/ ranking_matrix[i][s] = NaN THEN NaN
            ELSE ranking_matrix[i - 1][s] - ranking_matrix[i][s]]]

\* compute_daily_ranks_by_country: for each date the US and the TW list
compute_daily_ranks_by_country(matrix) ==
    [i \in 1..Len(matrix) |->
        [US |-> ranks_by_country(matrix[i], "US"), TW |-> ranks_by_country(matrix[i], "TW")]]

\* The lazy properties of an Indicators instance.  The instance is
\*   m            the score matrix _calculate_sharpe_matrix gives for self.close
\*   cache        the fields _sharpe .. _growth_rank_by_country that are not None
\*   computations how many times each was computed
LazyProperties ==
    {"sharpe", "rank", "growth", "growth_rank", "sharpe_rank_by_country",
     "growth_rank_by_country"}

\* the property each computation reads ("close" is a plain field)
Prerequisite(name) ==
    CASE name = "sharpe"                 -> "close"
      [] name = "rank"                   -> "sharpe"
      [] name = "growth"                 -> "rank"
      [] name = "growth_rank"            -> "growth"
      [] name = "sharpe_rank_by_country" -> "sharpe"
      [] name = "growth_rank_by_country" -> "growth"

\* the right-hand side of the assignment in the property `name`
ComputeProperty(name, m, input) ==
    CASE name = "sharpe"                 -> m
      [] name = "rank"                   -> calculate_ranking_matrix(input)
      [] name = "growth"                 -> calculate_growth_matrix(input)
      [] name = "growth_rank"            -> [i \in 1..Len(input) |-> RankRow(input[i])]
      [] name = "sharpe_rank_by_country" -> compute_daily_ranks_by_country(input)
      [] name = "growth_rank_by_country" -> compute_daily_ranks_by_country(input)

\* variant: the cached value is never found
is_cached_never(cache, name) == FALSE

\* "self._x is not None"
is_cached(cache, name) == name \in DOMAIN cache

\* the instance after the property `name` was read
RECURSIVE AccessProperty(_, _)
AccessProperty(I, name) ==
    IF name = "close" \/ is_cached(I.cache, name) THEN I
    ELSE LET J     == AccessProperty(I, Prerequisite(name))
             input == IF Prerequisite(name) = "close" THEN J.m
                      ELSE J.cache[Prerequisite(name)]
         IN  [J EXCEPT
                !.cache = [k \in DOMAIN J.cache \cup {name} |->
                              IF k = name THEN ComputeProperty(name, J.m, input)
                              ELSE J.cache[k]],
                !.computations[name] = @ + 1]

\* ----------------------------------------------------------------- dates
\* close_df.index: row i (0-based) of the price matrix is the trading date
\* 2i + 2, so that a calendar date can fall before, between and after rows.
date_of(i) == 2 * i + 2

FirstDate == date_of(0)

LastDate == date_of(MaxDays - 1)

\* end_date = None
NoDate == 0

\* datetime.today(), a day after the data
today_date == LastDate + 1

\* date_index.searchsorted(x, side='left'): the number of rows before x
searchsorted_left(x) == Cardinality({i \in 0..(MaxDays - 1) : date_of(i) < x})

\* variant: side='left' where side='right' is meant
searchsorted_right_as_left(x) == Cardinality({i \in 0..(MaxDays - 1) : date_of(i) < x})

\* date_index.searchsorted(x, side='right'): the number of rows up to x
searchsorted_right(x) == Cardinality({i \in 0..(MaxDays - 1) : date_of(i) <= x})

\* ------------------------------------------------------------ configuration
\* backtest/config.py DEFAULT_CONFIG with the sizes of this model: thresholds
\* of scores in tenths, drawdown threshold / batch_ratio / lead_margin in
\* percent, fee rates in thousandths.
BaseConfig ==
    [initial_capital  |-> twd(35000),
     amount_per_stock |-> twd(10000),
     max_positions    |-> 2,
     market           |-> "global",
     start_date       |-> FirstDate,
     end_date         |-> LastDate,
     rebalance_freq   |-> "weekly",
     fees |-> [us |-> [rate |-> 3, min_fee |-> 15],
               tw |-> [rate |-> 6, min_fee |-> 0]],
     buy_conditions |->
        [sharpe_rank      |-> [enabled |-> TRUE, top_n |-> 2],
         sharpe_threshold |-> [enabled |-> TRUE, threshold |-> 10],
         sharpe_streak    |-> [enabled |-> FALSE, days |-> 2, top_n |-> 2],
         growth_streak    |-> [enabled |-> FALSE, days |-> 2, percentile |-> 50],
         growth_rank      |-> [enabled |-> FALSE, top_n |-> 2],
         sort_sharpe      |-> [enabled |-> TRUE],
         sort_industry    |-> [enabled |-> FALSE, per_industry |-> 1]],
     sell_conditions |->
        [sharpe_fail  |-> [enabled |-> TRUE, periods |-> 2, top_n |-> 2],
         growth_fail  |-> [enabled |-> FALSE, days |-> 2, threshold |-> 0],
         not_selected |-> [enabled |-> FALSE, periods |-> 2],
         drawdown     |-> [enabled |-> TRUE, threshold |-> 40, from_highest |-> FALSE],
         weakness     |-> [enabled |-> FALSE, rank_k |-> 2, periods |-> 2]],
     rebalance_strategy |->
        [type |-> "delayed", top_n |-> 2, sharpe_threshold |-> 0,
         batch_ratio |-> 50, concentrate_top_k |-> 1, lead_margin |-> 30]]

\* ----------------------------------------------------------- dict helpers
\* d.get(k, default)
Get(d, k, default) == IF k \in DOMAIN d THEN d[k] ELSE default

\* d[k] = v
Put(d, k, v) == [x \in DOMAIN d \cup {k} |-> IF x = k THEN v ELSE d[x]]

\* variant: the key kept
Pop_kept(d, k) == d

\* d.pop(k, None)
Pop(d, k) == [x \in DOMAIN d \ {k} |-> d[x]]

EmptyDict == [x \in {} |-> 0]

\* ------------------------------------------------- backtest/config: loading
\* CONDITION_OPTIONS: the declared default, min and max of the parameters of
\* the rules and strategies, in the units of this model (scores in tenths,
\* ratios in percent).  The defaults are those of BaseConfig.  The two sell
\* cut-offs whose declared minimum (5 and 10) exceeds the universe of five
\* symbols start at 1.
Param(default, min, max) == [default |-> default, min |-> min, max |-> max]

CONDITION_OPTIONS ==
    [buy_conditions |->
        [sharpe_rank      |-> [top_n |-> Param(2, 1, 50)],
         sharpe_threshold |-> [threshold |-> Param(10, -20, 50)],
         sharpe_streak    |-> [days |-> Param(2, 1, 10), top_n |-> Param(2, 1, 30)],
         growth_rank      |-> [top_n |-> Param(2, 1, 30)],
         growth_streak    |-> [days |-> Param(2, 1, 10), percentile |-> Param(50, 10, 100)],
         sort_sharpe      |-> EmptyDict,
         sort_industry    |-> [per_industry |-> Param(1, 1, 5)]],
     sell_conditions |->
        [sharpe_fail  |-> [periods |-> Param(2, 1, 10), top_n |-> Param(2, 1, 50)],
         growth_fail  |-> [days |-> Param(2, 1, 20), threshold |-> Param(0, -10, 10)],
         not_selected |-> [periods |-> Param(2, 1, 10)],
         drawdown     |-> [threshold |-> Param(40, 5, 80)],
         weakness     |-> [rank_k |-> Param(2, 1, 50), periods |-> Param(2, 1, 10)]],
     rebalance_strategies |->
        [immediate    |-> EmptyDict,
         batch        |-> [batch_ratio |-> Param(50, 5, 100)],
         delayed      |-> [top_n |-> Param(2, 1, 20), sharpe_threshold |-> Param(0, -20, 50)],
         concentrated |-> [concentrate_top_k |-> Param(1, 1, 10),
                           lead_margin |-> Param(30, 0, 200)],
         none         |-> EmptyDict]]

\* {**a, **b}
DictMerge(a, b) == [k \in DOMAIN a \cup DOMAIN b |-> IF k \in DOMAIN b THEN b[k] ELSE a[k]]

\* load_config, "merge simple values": a key the user gives replaces the default
merge_simple(result, user_params) ==
    [k \in DOMAIN result |->
        IF /\ k \in {"initial_capital", "amount_per_stock", "max_positions", "market",
                     "start_date", "end_date", "rebalance_freq", "fees"}
           /\ k \in DOMAIN user_params
        THEN user_params[k] ELSE result[k]]

\* load_config, "merge nested dicts", one of buy_conditions / sell_conditions
\* (every value is a dict: a known rule is merged over its defaults)
merge_conditions(default_val, user) ==
    [c \in DOMAIN default_val \cup DOMAIN user |->
        IF c \notin DOMAIN user THEN default_val[c]
        ELSE IF c \in DOMAIN default_val THEN DictMerge(default_val[c], user[c])
        ELSE user[c]]

\* load_config, "merge nested dicts"
merge_nested(result, user_params) ==
    [k \in DOMAIN result |->
        IF k \in {"buy_conditions", "sell_conditions"} /\ k \in DOMAIN user_params
        THEN merge_conditions(BaseConfig[k], user_params[k])
        ELSE IF k = "rebalance_strategy" /\ k \in DOMAIN user_params
        THEN DictMerge(BaseConfig[k], user_params[k])
        ELSE result[k]]

\* the parameters of an option a dict lacks, at their declared default
fill_params(cond_val, params) ==
    [p \in DOMAIN cond_val \cup DOMAIN params |->
        IF p \in DOMAIN cond_val THEN cond_val[p] ELSE params[p].default]

\* _fill_condition_params
fill_condition_params(result) ==
    LET fill(conds, options) ==
            [c \in DOMAIN conds |->
                IF c \in DOMAIN options THEN fill_params(conds[c], options[c])
                ELSE conds[c]]
        strategy == result.rebalance_strategy
        stype    == strategy.type
    IN  [result EXCEPT
            !.buy_conditions = fill(result.buy_conditions, CONDITION_OPTIONS.buy_conditions),
            !.sell_conditions = fill(result.sell_conditions, CONDITION_OPTIONS.sell_conditions),
            !.rebalance_strategy =
                IF stype \in DOMAIN CONDITION_OPTIONS.rebalance_strategies
                THEN fill_params(strategy, CONDITION_OPTIONS.rebalance_strategies[stype])
                ELSE strategy]

\* _validate_config: TRUE when it raises ConfigError.  Amounts are the
\* numbers the runner wraps in twd(); fee rates are thousandths.
validate_config_raises(cfg) ==
    \/ cfg.initial_capital.amount <= 0
    \/ cfg.amount_per_stock.amount <= 0
    \/ ~(1 <= cfg.max_positions /\ cfg.max_positions <= 100)
    \/ cfg.market \notin {"us", "tw", "global"}
    \/ cfg.rebalance_freq \notin {"daily", "weekly", "monthly"}
    \/ \E market_key \in {"us", "tw"} :
          \/ market_key \notin DOMAIN cfg.fees
          \/ ~(0 <= cfg.fees[market_key].rate /\ cfg.fees[market_key].rate <= Milli)
          \/ cfg.fees[market_key].min_fee < 0
    \/ cfg.rebalance_strategy.type \notin
          {"immediate", "batch", "delayed", "concentrated", "none"}

\* load_config: the merged configuration and the exception it raises
load_config(user_params) ==
    LET result == fill_condition_params(
                      merge_nested(merge_simple(BaseConfig, user_params), user_params))
    IN  [config |-> result,
         error  |-> IF validate_config_raises(result) THEN "ConfigError" ELSE ""]

\* ---------------------------------------------------- engine: candidate list
\* variant: every symbol passes
check_buy_any(cfg, m, symbol, idx) == TRUE

\* BacktestEngine._check_buy
check_buy(cfg, m, symbol, idx) ==
    LET buy_cond == cfg.buy_conditions
        country  == stock_info[symbol].country
    IN  /\ buy_cond.sharpe_rank.enabled =>
              check_in_sharpe_top_k(m, symbol, idx, country, buy_cond.sharpe_rank.top_n)
        /\ buy_cond.sharpe_threshold.enabled =>
              /\ get_sharpe(m, symbol, idx) # NaN
              /\ ~(get_sharpe(m, symbol, idx) < buy_cond.sharpe_threshold.threshold)
        /\ buy_cond.sharpe_streak.enabled =>
              check_sharpe_streak(m, symbol, idx, buy_cond.sharpe_streak.days,
                                  buy_cond.sharpe_streak.top_n)
        /\ buy_cond.growth_streak.enabled =>
              check_growth_streak(m, symbol, idx, buy_cond.growth_streak.days,
                                  buy_cond.growth_streak.percentile)
        /\ buy_cond.growth_rank.enabled =>
              check_in_growth_top_k(m, symbol, idx, country, buy_cond.growth_rank.top_n)

\* key of the two sorts of _select_stocks: the candidate's score
\* (get_sharpe never returns None, so the -999 arm is not reached)
SharpeKey(m, idx) == [s \in SymbolSet |-> get_sharpe(m, s, idx)]

\* industries of a candidate list, in order of first appearance (dict keys)
RECURSIVE IndustriesOf(_, _)
IndustriesOf(cands, seen) ==
    IF cands = <<>> THEN <<>>
    ELSE LET ind == stock_info[Head(cands)].industry
         IN  IF ind \in seen THEN IndustriesOf(Tail(cands), seen)
             ELSE <<ind>> \o IndustriesOf(Tail(cands), seen \cup {ind})

\* one pass of the round-robin "for ind in industries" loop
\* acc = [selected, industry_count, has_more]
RECURSIVE RoundRobinPass(_, _, _, _)
RoundRobinPass(industries, groups, per_industry, acc) ==
    IF industries = <<>> THEN acc
    ELSE LET ind   == Head(industries)
             count == Get(acc.industry_count, ind, 0)
         IN  IF count >= per_industry
             THEN RoundRobinPass(Tail(industries), groups, per_industry, acc)
             ELSE IF count < Len(groups[ind])
             THEN RoundRobinPass(Tail(industries), groups, per_industry,
                      [selected       |-> Append(acc.selected, groups[ind][count + 1]),
                       industry_count |-> Put(acc.industry_count, ind, count + 1),
                       has_more       |-> TRUE])
             ELSE RoundRobinPass(Tail(industries), groups, per_industry, acc)

\* the "while has_more and round_count < max_rounds" loop
RECURSIVE RoundRobin(_, _, _, _, _, _)
RoundRobin(industries, groups, per_industry, acc, round_count, max_rounds) ==
    IF ~(acc.has_more /\ round_count < max_rounds) THEN acc.selected
    ELSE RoundRobin(industries, groups, per_industry,
                    RoundRobinPass(industries, groups, per_industry,
                                   [acc EXCEPT !.has_more = FALSE]),
                    round_count + 1, max_rounds)

\* variant: the sort_sharpe branch taken instead, no round-robin
sort_industry_by_sharpe(cfg, m, idx, cands) == SortDesc(cands, SharpeKey(m, idx))

\* the sort_industry branch of _select_stocks
sort_industry(cfg, m, idx, cands) ==
    LET per_industry == cfg.buy_conditions.sort_industry.per_industry
        key    == SharpeKey(m, idx)
        inds   == IndustriesOf(cands, {})
        groups == [ind \in Range(inds) |->
                      SortDesc(FilterSeq(cands,
                                  {s \in SymbolSet : stock_info[s].industry = ind}), key)]
        best   == [ind \in Range(inds) |-> key[groups[ind][1]]]
        industries == SortDesc(inds, best)
    IN  RoundRobin(industries, groups, per_industry,
                   [selected |-> <<>>, industry_count |-> EmptyDict, has_more |-> TRUE],
                   0, per_industry * Len(industries) + 1)

\* BacktestEngine._select_stocks
select_stocks(cfg, m, idx) ==
    LET candidates ==
            FilterSeq(Symbols,
                {s \in SymbolSet :
                    /\ stock_info[s].industry \notin NON_TRADABLE_INDUSTRIES
                    /\ check_buy(cfg, m, s, idx)})
    IN  IF cfg.buy_conditions.sort_industry.enabled
        THEN sort_industry(cfg, m, idx, candidates)
        ELSE IF cfg.buy_conditions.sort_sharpe.enabled
        THEN SortDesc(candidates, SharpeKey(m, idx))
        ELSE candidates


\* ------------------------------------------------------------ engine: state
\* The mutable fields of a BacktestEngine, threaded through the helpers:
\*   E.cash, E.positions (dict in insertion order, as a sequence of Position),
\*   E.trades, the four counter dicts, and E.raised (the exception that ended
\*   the run, "" while none).
NoError == ""

Raise(E) == [E EXCEPT !.raised = "CurrencyMismatchError"]

\* variant: no symbol counts as held
HeldSymbols_none(positions) == {}

HeldSymbols(positions) == {positions[i].symbol : i \in 1..Len(positions)}

\* self.positions[symbol]
PositionOf(positions, symbol) ==
    positions[CHOOSE i \in 1..Len(positions) : positions[i].symbol = symbol]

\* del self.positions[symbol]
RECURSIVE DelPosition(_, _)
DelPosition(positions, symbol) ==
    IF positions = <<>> THEN <<>>
    ELSE IF Head(positions).symbol = symbol THEN Tail(positions)
         ELSE <<Head(positions)>> \o DelPosition(Tail(positions), symbol)

\* max(amount_twd.amount * fee_cfg['rate'], fee_cfg['min_fee']) as twd(...)
fee_of(amount_twd, fee_cfg) ==
    LET by_rate == Money(amount_twd.amount * fee_cfg.rate, amount_twd.den * 1000, "TWD")
        minimum == twd(fee_cfg.min_fee)
    IN  IF MoneyLt(by_rate, minimum) THEN minimum ELSE by_rate

\* FEES.get('us' if is_us else 'tw', FEES['us'])
fee_cfg_of(cfg, is_us) == IF is_us THEN FEES.us ELSE FEES.tw

\* ------------------------------------------------------- engine: sell rules
\* variant: the peak follows the day's price
update_peaks_following(positions, row) ==
    [i \in 1..Len(positions) |-> [positions[i] EXCEPT !.peak_price = row[positions[i].symbol]]]

\* BacktestEngine._update_peaks
update_peaks(positions, row) ==
    [i \in 1..Len(positions) |->
        IF row[positions[i].symbol] > positions[i].peak_price
        THEN [positions[i] EXCEPT !.peak_price = row[positions[i].symbol]]
        ELSE positions[i]]

\* the defined growth values of the last `days` rows ending at idx
RECURSIVE growth_values(_, _, _, _)
growth_values(m, symbol, idx, days) ==
    IF days <= 0 THEN <<>>
    ELSE LET rest == growth_values(m, symbol, idx - 1, days - 1)
         IN  IF idx >= 0 /\ get_growth(m, symbol, idx) # NaN
             THEN <<get_growth(m, symbol, idx)>> \o rest
             ELSE rest

\* variant: the counter kept, not reset, when the condition does not hold
next_counter_sticky(count, condition) == IF condition THEN count + 1 ELSE count

\* counter[symbol] = counter.get(symbol, 0) + 1 if the condition holds, else 0
next_counter(count, condition) == IF condition THEN count + 1 ELSE 0

\* variant: drawdown checked before the periodic rules
sell_decision_drawdown_first(fire1, fire2, fire3, fire4, fire5) ==
    IF fire4 THEN 4
    ELSE IF fire1 THEN 1
    ELSE IF fire2 THEN 2
    ELSE IF fire3 THEN 3
    ELSE IF fire5 THEN 5
    ELSE 0

\* the order of the "return" statements of _check_sell: the first rule that
\* fires, 0 when none does
sell_decision(fire1, fire2, fire3, fire4, fire5) ==
    IF fire1 THEN 1
    ELSE IF fire2 THEN 2
    ELSE IF fire3 THEN 3
    ELSE IF fire4 THEN 4
    ELSE IF fire5 THEN 5
    ELSE 0

\* the reasons in the order of the rules
SellReasons == <<"sharpe_fail", "growth_fail", "not_selected", "drawdown", "weakness">>

\* BacktestEngine._check_sell: the reason ("" for None) and the engine with
\* the counters as the call leaves them
check_sell(cfg, m, row, idx, symbol, selected, pos, E) ==
    LET sc      == cfg.sell_conditions
        country == stock_info[symbol].country
        \* sharpe_fail
        in_top_k == check_in_sharpe_top_k(m, symbol, idx, country, sc.sharpe_fail.top_n)
        E1 == IF sc.sharpe_fail.enabled
              THEN [E EXCEPT !.sharpe_fail_counter =
                        Put(@, symbol, next_counter(Get(@, symbol, 0), ~in_top_k))]
              ELSE E
        fire1 == /\ sc.sharpe_fail.enabled
                 /\ Get(E1.sharpe_fail_counter, symbol, 0) >= sc.sharpe_fail.periods
        \* growth_fail
        gv == growth_values(m, symbol, idx, sc.growth_fail.days)
        fire2 == /\ sc.growth_fail.enabled
                 /\ gv # <<>>
                 /\ SeqSum(gv) < sc.growth_fail.threshold * Len(gv)
        \* not_selected
        E3 == IF sc.not_selected.enabled
              THEN [E1 EXCEPT !.not_selected_counter =
                        Put(@, symbol, next_counter(Get(@, symbol, 0), symbol \notin selected))]
              ELSE E1
        fire3 == /\ sc.not_selected.enabled
                 /\ Get(E3.not_selected_counter, symbol, 0) >= sc.not_selected.periods
        \* drawdown (prices compared in thousandths)
        price == row[symbol] * Milli
        reference_price ==
            IF sc.drawdown.from_highest
            THEN (IF pos.peak_price # 0 THEN pos.peak_price * Milli
                  ELSE pos.buy_price.amount)
            ELSE pos.buy_price.amount
        fire4 == /\ sc.drawdown.enabled
                 /\ reference_price > 0
                 /\ (reference_price - price) * 100 >= sc.drawdown.threshold * reference_price
        \* weakness
        sharpe_pos == get_sharpe_rank_position(m, symbol, idx, country)
        growth_pos == get_growth_rank_position(m, symbol, idx, country)
        sharpe_bad == sharpe_pos < 0 \/ sharpe_pos >= sc.weakness.rank_k
        growth_bad == growth_pos < 0 \/ growth_pos >= sc.weakness.rank_k
        E5 == IF sc.weakness.enabled
              THEN [E3 EXCEPT !.weakness_counter =
                        Put(@, symbol, next_counter(Get(@, symbol, 0), sharpe_bad /\ growth_bad))]
              ELSE E3
        fire5 == /\ sc.weakness.enabled
                 /\ Get(E5.weakness_counter, symbol, 0) >= sc.weakness.periods
        rule == sell_decision(fire1, fire2, fire3, fire4, fire5)
    IN  [reason |-> IF rule = 0 THEN "" ELSE SellReasons[rule],
         E      |-> IF rule \in {1, 2} THEN E1
                    ELSE IF rule \in {3, 4} THEN E3
                    ELSE E5]

\* variant: the trade put at the head of the ledger
append_trade_front(ledger, trade) == <<trade>> \o ledger

\* self.trades.append(Trade(...))
append_trade(ledger, trade) == Append(ledger, trade)

\* variant: profit without the sell fee
profit_of_gross(amount_twd, cost_basis, fee) == MoneySub(amount_twd, cost_basis)

\* profit = amount_twd - cost_basis - fee
profit_of(amount_twd, cost_basis, fee) == MoneySub(MoneySub(amount_twd, cost_basis), fee)

\* variant: the proceeds credited without deducting the fee
cash_after_sell_gross(old_cash, amount_twd, fee) == MoneyAdd(old_cash, amount_twd)

\* self.cash = self.cash + amount_twd - fee
cash_after_sell(old_cash, amount_twd, fee) == MoneySub(MoneyAdd(old_cash, amount_twd), fee)

\* BacktestEngine._sell
sell(cfg, fx, row, idx, symbol, reason, E) ==
    IF symbol \notin HeldSymbols(E.positions) THEN E
    ELSE
    LET pos       == PositionOf(E.positions, symbol)
        price_raw == row[symbol]
        is_us     == pos.country # "TW"
        price_money     == IF is_us THEN usd(price_raw) ELSE twd(price_raw)
        amount_original == IF is_us THEN usd(pos.shares * price_raw)
                           ELSE twd(pos.shares * price_raw)
        amount_twd      == IF is_us THEN to_twd(fx, amount_original, idx)
                           ELSE amount_original
        fee      == fee_of(amount_twd, fee_cfg_of(cfg, is_us))
        profit   == profit_of(amount_twd, pos.cost_basis, fee)
        new_cash == cash_after_sell(E.cash, amount_twd, fee)
    IN  IF IsRaised(profit) \/ IsRaised(new_cash) THEN Raise(E)
        ELSE [E EXCEPT
                !.cash      = new_cash,
                !.positions = DelPosition(@, symbol),
                !.sharpe_fail_counter  = Pop(@, symbol),
                !.growth_fail_counter  = Pop(@, symbol),
                !.not_selected_counter = Pop(@, symbol),
                !.weakness_counter     = Pop(@, symbol),
                !.trades = append_trade(@,
                    [date |-> idx, symbol |-> symbol, type |-> "sell",
                     shares |-> pos.shares, price |-> price_money,
                     amount |-> amount_original, amount_twd |-> amount_twd,
                     fee |-> fee, reason |-> reason, profit |-> profit])]

\* the first loop of _process_sells: acc = [E, to_sell]
RECURSIVE CheckSellLoop(_, _, _, _, _, _, _)
CheckSellLoop(cfg, m, row, idx, selected, items, acc) ==
    IF items = <<>> THEN acc
    ELSE LET pos == Head(items)
             r   == check_sell(cfg, m, row, idx, pos.symbol, selected, pos, acc.E)
         IN  CheckSellLoop(cfg, m, row, idx, selected, Tail(items),
                 [E |-> r.E,
                  to_sell |-> IF r.reason # ""
                              THEN Append(acc.to_sell, <<pos.symbol, r.reason>>)
                              ELSE acc.to_sell])

\* the second loop of _process_sells
RECURSIVE SellLoop(_, _, _, _, _, _)
SellLoop(cfg, fx, row, idx, to_sell, E) ==
    IF to_sell = <<>> \/ E.raised # NoError THEN E
    ELSE SellLoop(cfg, fx, row, idx, Tail(to_sell),
                  sell(cfg, fx, row, idx, Head(to_sell)[1], Head(to_sell)[2], E))

\* variant: the held symbols left out of the selection the rules see
process_sells_unheld(cfg, fx, m, row, idx, E) ==
    LET selected == Range(select_stocks(cfg, m, idx)) \ HeldSymbols(E.positions)
        checked  == CheckSellLoop(cfg, m, row, idx, selected, E.positions,
                                  [E |-> E, to_sell |-> <<>>])
    IN  SellLoop(cfg, fx, row, idx, checked.to_sell, checked.E)

\* BacktestEngine._process_sells
process_sells(cfg, fx, m, row, idx, E) ==
    LET selected == Range(select_stocks(cfg, m, idx))
        checked  == CheckSellLoop(cfg, m, row, idx, selected, E.positions,
                                  [E |-> E, to_sell |-> <<>>])
    IN  SellLoop(cfg, fx, row, idx, checked.to_sell, checked.E)


\* ------------------------------------------------------------- engine: buys
\* BacktestEngine._get_amount_per_stock (the configuration holds Money)
get_amount_per_stock(cfg) == cfg.amount_per_stock

\* int(budget / price_raw): the per-stock budget in the instrument's currency
\* over the price, truncated (budget and price are positive)
shares_for(fx, idx, amount_per_stock, price_raw, is_us) ==
    LET budget == IF is_us THEN to_usd(fx, amount_per_stock, idx) ELSE amount_per_stock
    IN  FloorDiv(budget.amount, budget.den * price_raw * Milli)

\* variant: the cost of a buy without its fee
total_cost_of_gross(amount_twd, fee) == amount_twd

\* total_cost = amount_twd + fee
total_cost_of(amount_twd, fee) == MoneyAdd(amount_twd, fee)

\* variant: the loop stops below twice the budget
half_amount_twice(amount_per_stock) == MoneyMul(amount_per_stock, 2, 1)

\* half_amount = amount_per_stock * 0.5
half_amount(amount_per_stock) == MoneyMul(amount_per_stock, 1, 2)

\* the body of the "for symbol in symbols" loop of _buy_stocks
RECURSIVE BuyLoop(_, _, _, _, _, _, _)
BuyLoop(cfg, fx, row, idx, amount_per_stock, symbols, E) ==
    IF symbols = <<>> \/ E.raised # NoError THEN E
    ELSE
    LET symbol      == Head(symbols)
        price_raw   == row[symbol]
        country     == stock_info[symbol].country
        is_us       == country # "TW"
        price_money == IF is_us THEN usd(price_raw) ELSE twd(price_raw)
        shares      == shares_for(fx, idx, amount_per_stock, price_raw, is_us)
        amount_original == IF is_us THEN usd(shares * price_raw)
                           ELSE twd(shares * price_raw)
        amount_twd  == IF is_us THEN to_twd(fx, amount_original, idx)
                       ELSE amount_original
        fee         == fee_of(amount_twd, fee_cfg_of(cfg, is_us))
        total_cost  == total_cost_of(amount_twd, fee)
        skip        == BuyLoop(cfg, fx, row, idx, amount_per_stock, Tail(symbols), E)
    IN  IF ~SameCurrency(E.cash, half_amount(amount_per_stock)) THEN Raise(E)
        ELSE IF MoneyLt(E.cash, half_amount(amount_per_stock)) THEN E
        ELSE IF symbol \in HeldSymbols(E.positions) THEN skip
        ELSE IF price_raw = NaN \/ price_raw <= 0 THEN skip
        ELSE IF shares <= 0 THEN skip
        ELSE IF IsRaised(total_cost) \/ ~SameCurrency(total_cost, E.cash) THEN Raise(E)
        ELSE IF MoneyGt(total_cost, E.cash) THEN skip
        ELSE BuyLoop(cfg, fx, row, idx, amount_per_stock, Tail(symbols),
                [E EXCEPT
                    !.cash = MoneySub(E.cash, total_cost),
                    !.positions = Append(@,
                        [symbol |-> symbol, shares |-> shares, avg_cost |-> price_money,
                         cost_basis |-> total_cost, buy_date |-> idx,
                         buy_price |-> price_money, peak_price |-> price_raw,
                         country |-> country]),
                    !.trades = append_trade(@,
                        [date |-> idx, symbol |-> symbol, type |-> "buy",
                         shares |-> shares, price |-> price_money,
                         amount |-> amount_original, amount_twd |-> amount_twd,
                         fee |-> fee, reason |-> "buy", profit |-> twd(0)])])

\* BacktestEngine._buy_stocks
buy_stocks(cfg, fx, row, idx, symbols, amount_per_stock, E) ==
    BuyLoop(cfg, fx, row, idx, amount_per_stock, symbols, E)

\* avg_sharpe(tickers) as the fraction sum/n of the defined scores (0/1 if none)
avg_sharpe(m, idx, tickers) ==
    LET defined == FilterSeq(tickers, {t \in SymbolSet : get_sharpe(m, t, idx) # NaN})
        values  == [i \in 1..Len(defined) |-> get_sharpe(m, defined[i], idx)]
    IN  [sum |-> SeqSum(values), n |-> Max(1, Len(values))]

\* the rankings of the countries of the configured market, cut to [a:b]
MarketSlice(cfg, m, idx, a, b) ==
    (IF cfg.market \in {"global", "us"}
     THEN Slice(sharpe_rank_by_country(m, idx, "US"), a, b) ELSE <<>>)
    \o
    (IF cfg.market \in {"global", "tw"}
     THEN Slice(sharpe_rank_by_country(m, idx, "TW"), a, b) ELSE <<>>)

\* should_invest of the concentrated strategy
concentrated_should_invest(cfg, m, idx) ==
    LET top_k       == cfg.rebalance_strategy.concentrate_top_k
        lead_margin == cfg.rebalance_strategy.lead_margin
        top_k_avg   == avg_sharpe(m, idx, MarketSlice(cfg, m, idx, 0, top_k))
        next_k_avg  == avg_sharpe(m, idx, MarketSlice(cfg, m, idx, top_k, top_k * 2))
    IN  IF next_k_avg.sum <= 0 /\ top_k_avg.sum > 0 THEN TRUE
        ELSE IF next_k_avg.sum > 0
        THEN (top_k_avg.sum * next_k_avg.n - next_k_avg.sum * top_k_avg.n) * 100
                 >= lead_margin * next_k_avg.sum * top_k_avg.n
        ELSE FALSE

\* "avg_sharpe <= sharpe_threshold" of the delayed strategy fails
delayed_should_invest(cfg, m, idx) ==
    LET avg == avg_sharpe(m, idx, MarketSlice(cfg, m, idx, 0, cfg.rebalance_strategy.top_n))
    IN  ~(avg.sum <= cfg.rebalance_strategy.sharpe_threshold * avg.n)

\* variant: the candidates not cut to the free slots
limit_to_slots_uncut(to_buy, slots) == to_buy

\* to_buy = to_buy[:slots]
limit_to_slots(to_buy, slots) == Take(to_buy, slots)

\* variant: the whole fraction given to every stock
batch_amount_undivided(old_cash, batch_ratio, n) == MoneyMul(old_cash, batch_ratio, 100)

\* batch: (self.cash * ratio) / len(to_buy), ratio in percent
batch_amount(old_cash, batch_ratio, n) == MoneyDiv(MoneyMul(old_cash, batch_ratio, 100), n)

\* variant: the strategy `none` buying like `immediate`
rebalance_none_buying(cfg, fx, row, idx, to_buy, E) ==
    buy_stocks(cfg, fx, row, idx, to_buy, get_amount_per_stock(cfg), E)

\* the else branch of _process_rebalance (none): pass
rebalance_none(cfg, fx, row, idx, to_buy, E) == E

\* BacktestEngine._process_rebalance
process_rebalance(cfg, fx, m, row, idx, E) ==
    LET strategy   == cfg.rebalance_strategy
        candidates == select_stocks(cfg, m, idx)
        to_buy_all == FilterSeq(candidates, SymbolSet \ HeldSymbols(E.positions))
        slots      == cfg.max_positions - Len(E.positions)
        to_buy     == limit_to_slots(to_buy_all, slots)
    IN  IF to_buy_all = <<>> THEN E
        ELSE IF slots <= 0 THEN E
        ELSE IF strategy.type = "batch"
        THEN buy_stocks(cfg, fx, row, idx, to_buy,
                        batch_amount(E.cash, strategy.batch_ratio, Len(to_buy)), E)
        ELSE IF strategy.type = "immediate"
        THEN buy_stocks(cfg, fx, row, idx, to_buy, get_amount_per_stock(cfg), E)
        ELSE IF strategy.type = "concentrated"
        THEN (IF ~concentrated_should_invest(cfg, m, idx) THEN E
              ELSE buy_stocks(cfg, fx, row, idx, Take(to_buy, strategy.concentrate_top_k),
                              get_amount_per_stock(cfg), E))
        ELSE IF strategy.type = "delayed"
        THEN (IF ~delayed_should_invest(cfg, m, idx) THEN E
              ELSE buy_stocks(cfg, fx, row, idx, to_buy, get_amount_per_stock(cfg), E))
        ELSE rebalance_none(cfg, fx, row, idx, to_buy, E)

\* isocalendar()[1] and .month of a trading date: weeks of 7 and months of
\* 30 calendar days
week_of(d) == d \div 7

month_of(d) == d \div 30

\* BacktestEngine._is_rebalance_day
is_rebalance_day(cfg, idx) ==
    LET freq == cfg.rebalance_freq
    IN  IF freq = "daily" THEN TRUE
        ELSE IF freq = "weekly"
        THEN (IF idx > 0 THEN week_of(date_of(idx)) # week_of(date_of(idx - 1)) ELSE TRUE)
        ELSE IF freq = "monthly"
        THEN (IF idx > 0 THEN month_of(date_of(idx)) # month_of(date_of(idx - 1)) ELSE TRUE)
        ELSE FALSE

\* variant: the rebalance step taken on rebalance days only
process_day_rebalance_on_schedule(cfg, fx, m, row, idx, E) ==
    IF is_rebalance_day(cfg, idx) THEN process_rebalance(cfg, fx, m, row, idx, E) ELSE E

\* _process_day: self._process_rebalance(idx, date_str), on every day
process_day_rebalance(cfg, fx, m, row, idx, E) ==
    process_rebalance(cfg, fx, m, row, idx, E)

\* ----------------------------------------------------- engine: valuation
\* variant: the position valued at its native price, without FX conversion
market_value_twd_native(fx, row, idx, pos) == twd(pos.shares * row[pos.symbol])

\* market value in TWD of one position at the day's price and FX rate
market_value_twd(fx, row, idx, pos) ==
    IF pos.country # "TW"
    THEN to_twd(fx, usd(pos.shares * row[pos.symbol]), idx)
    ELSE twd(pos.shares * row[pos.symbol])

\* the loop of _calc_equity_with_holdings: acc = [equity, holdings_value, holdings]
RECURSIVE EquityLoop(_, _, _, _, _)
EquityLoop(fx, row, idx, items, acc) ==
    IF items = <<>> \/ IsRaised(acc.equity) THEN acc
    ELSE LET pos == Head(items)
             mv  == market_value_twd(fx, row, idx, pos)
         IN  EquityLoop(fx, row, idx, Tail(items),
                [equity         |-> MoneyAdd(acc.equity, mv),
                 holdings_value |-> acc.holdings_value + mv.amount,
                 holdings       |-> Put(acc.holdings, pos.symbol,
                     [shares |-> pos.shares, avgCost |-> pos.avg_cost.amount,
                      currentPrice |-> row[pos.symbol] * Milli,
                      marketValue |-> mv.amount, buyDate |-> pos.buy_date,
                      industry |-> stock_info[pos.symbol].industry,
                      country |-> pos.country])])

\* BacktestEngine._calc_equity_with_holdings
calc_equity_with_holdings(fx, row, idx, E) ==
    EquityLoop(fx, row, idx, E.positions,
               [equity |-> E.cash, holdings_value |-> 0, holdings |-> EmptyDict])


\* ------------------------------------------------------- engine: result
\* A ratio of two amounts, kept exact as a reduced fraction num/den (den > 0).
Frac(n, d) ==
    IF n = 0 THEN [num |-> 0, den |-> 1]
    ELSE [num |-> n \div GCD(Abs(n), d), den |-> d \div GCD(Abs(n), d)]

\* a/b < c/d for a, c >= 0 and b, d > 0, by the continued-fraction expansion
RECURSIVE FracLt(_, _, _, _)
FracLt(a, b, c, d) ==
    IF a \div b # c \div d THEN a \div b < c \div d
    ELSE IF c % d = 0 THEN FALSE
    ELSE IF a % b = 0 THEN TRUE
    ELSE FracLt(d, c % d, b, a % b)

\* BacktestEngine._calc_equity: cash + the market value of every position
calc_equity(fx, row, idx, E) == calc_equity_with_holdings(fx, row, idx, E).equity

\* sells = [t for t in self.trades if t.type == TradeType.SELL]
sells_of(trades) == SelectSeq(trades, LAMBDA t : t.type = "sell")

\* win_trades = sum(1 for t in sells if t.profit.amount > 0)
win_trades_of(trades) == Len(SelectSeq(sells_of(trades), LAMBDA t : t.profit.amount > 0))

\* variant: the trades of every type counted
loss_trades_of_all(trades) == Len(SelectSeq(trades, LAMBDA t : t.profit.amount <= 0))

\* loss_trades = sum(1 for t in sells if t.profit.amount <= 0)
loss_trades_of(trades) == Len(SelectSeq(sells_of(trades), LAMBDA t : t.profit.amount <= 0))

\* win_rate = win_trades / total if total > 0 else 0
win_rate_of(trades) ==
    IF Len(sells_of(trades)) > 0
    THEN Frac(win_trades_of(trades), Len(sells_of(trades)))
    ELSE Frac(0, 1)

\* the max drawdown loop of _calculate_result: acc = [max_eq, max_dd], max_eq
\* starting from the initial capital and max_dd from 0
RECURSIVE DrawdownLoop(_, _)
DrawdownLoop(curve, acc) ==
    IF curve = <<>> THEN acc
    ELSE LET eq      == Head(curve).equity
             max_eq  == IF eq > acc.max_eq THEN eq ELSE acc.max_eq
             dd      == IF max_eq > 0 THEN Frac(max_eq - eq, max_eq) ELSE Frac(0, 1)
             max_dd  == IF FracLt(acc.max_dd.num, acc.max_dd.den, dd.num, dd.den)
                        THEN dd ELSE acc.max_dd
         IN  DrawdownLoop(Tail(curve), [max_eq |-> max_eq, max_dd |-> max_dd])

max_drawdown_of(initial, curve) ==
    DrawdownLoop(curve, [max_eq |-> initial.amount, max_dd |-> Frac(0, 1)]).max_dd

\* BacktestEngine._calculate_result (annualized_return and sharpe_ratio,
\* which are not rational, are left out)
calculate_result(cfg, fx, row, start_idx, end_idx, E, curve) ==
    LET initial == cfg.initial_capital
        final   == calc_equity(fx, row, end_idx, E)
    IN  [initial_capital |-> initial,
         final_equity    |-> final,
         days            |-> end_idx - start_idx + 1,
         total_trades    |-> Len(E.trades),
         win_trades      |-> win_trades_of(E.trades),
         loss_trades     |-> loss_trades_of(E.trades),
         win_rate        |-> win_rate_of(E.trades),
         max_drawdown    |-> max_drawdown_of(initial, curve),
         trades          |-> E.trades,
         equity_curve    |-> curve]

\* ----------------------------------------------------------- date range
\* variant: a range of one trading day accepted
range_is_empty_strict(start_dt, end_dt) == start_dt > end_dt

\* resolve_date_range: if start_dt >= end_dt
range_is_empty(start_dt, end_dt) == start_dt >= end_dt

\* resolve_date_range: the resolved dates, or the ValueError it raises
resolve_date_range(cfg) ==
    LET end_dt_raw == IF cfg.end_date = NoDate THEN today_date ELSE cfg.end_date
        end_idx    == searchsorted_right(end_dt_raw) - 1
        start_idx  == searchsorted_left(cfg.start_date)
        error      == [error |-> "ValueError", start_dt |-> NoDate, end_dt |-> NoDate]
    IN  IF end_idx < 0 THEN error
        ELSE IF start_idx >= MaxDays THEN error
        ELSE IF range_is_empty(date_of(start_idx), date_of(end_idx)) THEN error
        ELSE [error |-> NoError, start_dt |-> date_of(start_idx),
              end_dt |-> date_of(end_idx)]

\* variant: the loop stopping one day early
loop_continues_exclusive(idx, end_idx) == idx + 1 < end_idx

\* run(): for idx in range(start_idx, end_idx + 1), whether a day follows idx
loop_continues(idx, end_idx) == idx + 1 <= end_idx

\* ---------------------------------------------------------------- scenarios
\* FX tables (day index -> TWD per USD).  A day without an entry takes the
\* latest earlier entry, a day before every entry the default rate.
FXEmpty == [d \in {} |-> 0]

FXDoubles == [d \in {0, 1} |-> IF d = 0 THEN 30 ELSE 60]

FXLate == [d \in {1} |-> 30]

\* the default rules, bought when the market is strong (delayed)
CfgDelayed == BaseConfig

\* every sell rule enabled with a one-day streak, fixed budget (immediate);
\* the configured fee schedule differs from core.config.FEES
CfgAllSells ==
    [BaseConfig EXCEPT
        !.initial_capital = twd(25000),
        !.max_positions = 3,
        !.fees = [us |-> [rate |-> 1, min_fee |-> 0], tw |-> [rate |-> 1, min_fee |-> 0]],
        !.sell_conditions.sharpe_fail = [enabled |-> TRUE, periods |-> 1, top_n |-> 2],
        !.sell_conditions.growth_fail.enabled = TRUE,
        !.sell_conditions.not_selected = [enabled |-> TRUE, periods |-> 1],
        !.sell_conditions.weakness = [enabled |-> TRUE, rank_k |-> 1, periods |-> 1],
        !.rebalance_strategy.type = "immediate"]

\* the three counter rules with a two-day streak, a fraction of the cash per
\* day (batch)
CfgCounters ==
    [BaseConfig EXCEPT
        !.initial_capital = twd(4000),
        !.max_positions = 3,
        !.sell_conditions.not_selected = [enabled |-> TRUE, periods |-> 2],
        !.sell_conditions.drawdown.enabled = FALSE,
        !.sell_conditions.weakness = [enabled |-> TRUE, rank_k |-> 1, periods |-> 2],
        !.rebalance_strategy.type = "batch"]

\* no filter at all and no ordering: every tradable symbol is a candidate
\* (also the one without a score); drawdown from the peak only
CfgNoFilter ==
    [BaseConfig EXCEPT
        !.initial_capital = twd(5000),
        !.amount_per_stock = twd(1000),
        !.max_positions = 4,
        !.buy_conditions.sharpe_rank.enabled = FALSE,
        !.buy_conditions.sharpe_threshold.enabled = FALSE,
        !.buy_conditions.sort_sharpe.enabled = FALSE,
        !.sell_conditions.sharpe_fail.enabled = FALSE,
        !.sell_conditions.drawdown.from_highest = TRUE,
        !.rebalance_strategy.type = "immediate"]

\* growth filters, industry round-robin, buy only a clear leader (concentrated)
CfgConcentrated ==
    [BaseConfig EXCEPT
        !.buy_conditions.sharpe_rank.top_n = 3,
        !.buy_conditions.sharpe_threshold.enabled = FALSE,
        !.buy_conditions.sharpe_streak.enabled = TRUE,
        !.buy_conditions.growth_rank = [enabled |-> TRUE, top_n |-> 2],
        !.buy_conditions.growth_streak = [enabled |-> TRUE, days |-> 1, percentile |-> 100],
        !.buy_conditions.sort_industry.enabled = TRUE,
        !.sell_conditions.sharpe_fail.enabled = FALSE,
        !.sell_conditions.growth_fail.enabled = TRUE,
        !.rebalance_strategy.type = "concentrated"]

\* positions only close (none)
CfgNone == [BaseConfig EXCEPT !.rebalance_strategy.type = "none"]

\* a per-stock budget given in USD
CfgUsdBudget ==
    [BaseConfig EXCEPT
        !.amount_per_stock = usd(300),
        !.buy_conditions.sharpe_threshold.enabled = FALSE,
        !.rebalance_strategy.type = "immediate"]

\* a fraction of the cash per day (batch) with fewer slots than candidates
CfgBatchCapped == [BaseConfig EXCEPT !.rebalance_strategy.type = "batch"]

\* one tradable symbol, bought by rank alone, sold on a 10% fall from the buy
\* price, no rebalancing (none)
CfgScenarioA ==
    [BaseConfig EXCEPT
        !.buy_conditions.sharpe_rank.top_n = 1,
        !.buy_conditions.sharpe_threshold.enabled = FALSE,
        !.sell_conditions.sharpe_fail.enabled = FALSE,
        !.sell_conditions.drawdown = [enabled |-> TRUE, threshold |-> 10,
                                      from_highest |-> FALSE],
        !.rebalance_strategy.type = "none"]

\* no filter, bought when the mean of the Top-N is above -1.0 (delayed): a
\* threshold inside the declared range -2..5
CfgDelayedLow ==
    [CfgNoFilter EXCEPT
        !.rebalance_strategy.type = "delayed",
        !.rebalance_strategy.sharpe_threshold = -10]

\* no filter, one slot and a budget below the price of one AAPL share on the
\* dearer days (immediate)
CfgOneSlot ==
    [CfgNoFilter EXCEPT
        !.max_positions = 1,
        !.amount_per_stock = twd(500)]

\* the price matrix of a market with one symbol at a constant price (the
\* other columns are empty)
ConstantPriceRows == {[s \in SymbolSet |-> IF s = "AAPL" THEN 20 ELSE NaN]}

\* its score rows: the rolling standard deviation of a constant series is 0,
\* replaced by NaN, so the score is undefined; rounding noise in the rolling
\* computation leaves a tiny deviation instead and a defined, negative score
ConstantSharpeRows ==
    {[s \in SymbolSet |-> NaN],
     [s \in SymbolSet |-> IF s = "AAPL" THEN -10 ELSE NaN]}

\* no filter, one slot, a capital that the first buy nearly uses up; the
\* position is sold on a 40% fall from its peak (immediate)
CfgCrash ==
    [CfgNoFilter EXCEPT
        !.initial_capital = twd(660),
        !.max_positions = 1]

\* the price matrix of a market where AAPL trades at 20 or is quoted at 0
\* (the price _buy_stocks refuses with "price_raw <= 0")
CrashPriceRows == {PriceRow(20, 50), PriceRow(0, 50)}

\* the rows a day of the matrix can hold, by kind of market data
PriceRowsOf(kind) ==
    CASE kind = "constant" -> ConstantPriceRows
      [] kind = "crash"    -> CrashPriceRows
      [] OTHER             -> PriceRows

SharpeRowsOf(kind) == IF kind = "constant" THEN ConstantSharpeRows ELSE SharpeRows

\* the default rules over a requested date range
CfgDates(start_date, end_date) ==
    [BaseConfig EXCEPT !.start_date = start_date, !.end_date = end_date]

\* requested ranges: from before the data to today; from between two rows to
\* after the data; one row only; no row; before the data; after the data
DateRequests ==
    {<<1, NoDate>>, <<3, LastDate + 1>>, <<1, 3>>, <<3, 3>>, <<1, 1>>,
     <<LastDate + 1, NoDate>>}

\* parameters load_config refuses: a number out of its range, an unknown
\* market, frequency or strategy, a fee schedule without its TW part or with
\* a rate above 1
RefusedParams ==
    {[max_positions |-> 0], [initial_capital |-> twd(0)], [market |-> "jp"],
     [rebalance_freq |-> "yearly"], [rebalance_strategy |-> [type |-> "foo"]],
     [fees |-> [us |-> [rate |-> 3, min_fee |-> 15]]],
     [fees |-> [us |-> [rate |-> 2000, min_fee |-> 15], tw |-> [rate |-> 6, min_fee |-> 0]]]}

\* parameters of a rule outside the range CONDITION_OPTIONS declares for it
UndeclaredParams == {[buy_conditions |-> [sharpe_rank |-> [top_n |-> 0]]]}

\* the runs of the model: the user's parameters, an FX table and the kind of
\* data
Scenarios ==
    {<<CfgDelayed, FXEmpty, "varied">>, <<CfgAllSells, FXDoubles, "varied">>,
     <<CfgCounters, FXLate, "varied">>, <<CfgNoFilter, FXDoubles, "varied">>,
     <<CfgConcentrated, FXEmpty, "varied">>, <<CfgNone, FXEmpty, "varied">>,
     <<CfgUsdBudget, FXEmpty, "varied">>, <<CfgScenarioA, FXEmpty, "constant">>,
     <<CfgNoFilter, FXEmpty, "constant">>, <<CfgBatchCapped, FXEmpty, "varied">>,
     <<CfgDelayedLow, FXEmpty, "constant">>, <<CfgOneSlot, FXEmpty, "varied">>,
     <<CfgCrash, FXEmpty, "crash">>}
    \cup {<<CfgDates(r[1], r[2]), FXEmpty, "varied">> : r \in DateRequests}
    \cup {<<u, FXEmpty, "varied">> : u \in RefusedParams \cup UndeclaredParams}

\* ------------------------------------------------------------ state machine
VARIABLES
    user_params,           \* the argument of load_config
    config,                \* load_config's result, then self.config
    fx,                    \* self.fx._history
    data,                  \* the kind of market data behind self.close
    close,                 \* self.close, the rows up to the current day
    sharpe,                \* self.indicators.sharpe, the rows up to the current day
    start_idx,             \* run()'s start_idx
    end_idx,               \* run()'s end_idx
    idx,                   \* the day index of run()'s loop
    pc,                    \* the step of _process_day that runs next
    cash,                  \* self.cash
    positions,             \* self.positions
    trades,                \* self.trades
    equity_curve,          \* self.equity_curve
    sharpe_fail_counter,   \* self._sharpe_fail_counter
    growth_fail_counter,   \* self._growth_fail_counter
    not_selected_counter,  \* self._not_selected_counter
    weakness_counter,      \* self._weakness_counter
    raised,                \* the exception that ended the run ("" while none)
    result,                \* the BacktestResult run() returns
    call,                  \* a direct call of a value type or helper: what is called
    ret                    \* the outcomes of that call so far

vars == <<user_params, config, fx, data, close, sharpe, start_idx, end_idx, idx, pc, cash, positions, trades, equity_curve,
          sharpe_fail_counter, growth_fail_counter, not_selected_counter,
          weakness_counter, raised, result, call, ret>>

\* the direct calls, which a run of the engine leaves alone
direct == <<call, ret>>

\* no direct call
NoCall == [fn |-> "none"]

inputs == <<user_params, fx, data>>

range == <<start_idx, end_idx>>

\* the engine fields as the record the helpers work on
Engine ==
    [cash |-> cash, positions |-> positions, trades |-> trades,
     sharpe_fail_counter |-> sharpe_fail_counter,
     growth_fail_counter |-> growth_fail_counter,
     not_selected_counter |-> not_selected_counter,
     weakness_counter |-> weakness_counter, raised |-> raised]

SetEngine(E) ==
    /\ cash' = E.cash
    /\ positions' = E.positions
    /\ trades' = E.trades
    /\ sharpe_fail_counter' = E.sharpe_fail_counter
    /\ growth_fail_counter' = E.growth_fail_counter
    /\ not_selected_counter' = E.not_selected_counter
    /\ weakness_counter' = E.weakness_counter
    /\ raised' = E.raised

\* the value of `result` before run() returns
NoResult == [returned |-> FALSE]

\* today's row of the price matrix: self.close.iloc[idx]
Today == close[idx + 1]

\* the program at the call of load_config: the user's parameters, the FX
\* table and the data are given, the configuration is the copy of
\* DEFAULT_CONFIG and the engine is as BacktestEngine.__init__ leaves it
Init ==
    /\ \E sc \in Scenarios : user_params = sc[1] /\ fx = sc[2] /\ data = sc[3]
    /\ config = BaseConfig
    /\ close = <<>>
    /\ sharpe = <<>>
    /\ start_idx = 0
    /\ end_idx = 0
    /\ idx = 0
    /\ pc = "load_config"
    /\ cash = config.initial_capital
    /\ positions = <<>>
    /\ trades = <<>>
    /\ equity_curve = <<>>
    /\ sharpe_fail_counter = EmptyDict
    /\ growth_fail_counter = EmptyDict
    /\ not_selected_counter = EmptyDict
    /\ weakness_counter = EmptyDict
    /\ raised = NoError
    /\ result = NoResult
    /\ call = NoCall
    /\ ret = <<>>

\* load_config; on success BacktestEngine.__init__ takes the configuration
LoadConfig ==
    /\ pc = "load_config"
    /\ \E r \in {load_config(user_params)} :
          IF r.error # NoError
          THEN /\ raised' = r.error
               /\ pc' = "config_error"
               /\ UNCHANGED <<config, cash>>
          ELSE /\ config' = r.config
               /\ cash' = r.config.initial_capital
               /\ raised' = raised
               /\ pc' = "resolve_date_range"
    /\ UNCHANGED <<direct, inputs, close, sharpe, range, idx, positions, trades, equity_curve,
                   sharpe_fail_counter, growth_fail_counter, not_selected_counter,
                   weakness_counter, result>>

\* run_backtest up to the loop of run(): resolve_date_range, then run()'s
\* own searchsorted of the resolved dates; the rows of the matrix before the
\* first simulated day become visible
ResolveDateRange ==
    /\ pc = "resolve_date_range"
    /\ \E r \in {resolve_date_range(config)} :
          IF r.error # NoError
          THEN /\ raised' = r.error
               /\ pc' = "range_error"
               /\ UNCHANGED <<close, sharpe, range, idx>>
          ELSE /\ start_idx' = searchsorted_left(r.start_dt)
               /\ end_idx' = searchsorted_right(r.end_dt) - 1
               /\ idx' = start_idx'
               /\ \E pre \in [1..start_idx' -> PriceRowsOf(data) \X SharpeRowsOf(data)] :
                     /\ close' = IF start_idx' = 0 THEN <<>>
                                 ELSE [k \in 1..start_idx' |-> pre[k][1]]
                     /\ sharpe' = IF start_idx' = 0 THEN <<>>
                                  ELSE [k \in 1..start_idx' |-> pre[k][2]]
               /\ raised' = raised
               /\ pc' = "update_peaks"
    /\ UNCHANGED <<direct, inputs, config, cash, positions, trades, equity_curve, sharpe_fail_counter,
                   growth_fail_counter, not_selected_counter, weakness_counter, result>>

\* _process_day, step 1: the day's rows become visible; _update_peaks
UpdatePeaks ==
    /\ pc = "update_peaks"
    /\ idx <= end_idx
    /\ \E prow \in PriceRowsOf(data), srow \in SharpeRowsOf(data) :
          /\ close' = Append(close, prow)
          /\ sharpe' = Append(sharpe, srow)
          /\ positions' = update_peaks(positions, prow)
    /\ pc' = "process_sells"
    /\ UNCHANGED <<direct, inputs, config, range, idx, cash, trades, equity_curve, sharpe_fail_counter,
                   growth_fail_counter, not_selected_counter, weakness_counter, raised,
                   result>>

\* _process_day, step 2: _process_sells
ProcessSells ==
    /\ pc = "process_sells"
    /\ \E E \in {process_sells(config, fx, sharpe, Today, idx, Engine)} :
           /\ SetEngine(E)
           /\ pc' = IF E.raised # NoError THEN "raised" ELSE "process_rebalance"
    /\ UNCHANGED <<direct, inputs, config, close, sharpe, range, idx, equity_curve, result>>

\* _process_day, step 3: _process_rebalance
ProcessRebalance ==
    /\ pc = "process_rebalance"
    /\ \E E \in {process_day_rebalance(config, fx, sharpe, Today, idx, Engine)} :
           /\ SetEngine(E)
           /\ pc' = IF E.raised # NoError THEN "raised" ELSE "append_equity"
    /\ UNCHANGED <<direct, inputs, config, close, sharpe, range, idx, equity_curve, result>>

\* _process_day, step 4: the equity snapshot; then the next day of the loop
AppendEquity ==
    /\ pc = "append_equity"
    /\ \E r \in {calc_equity_with_holdings(fx, Today, idx, Engine)} :
           IF IsRaised(r.equity)
           THEN /\ raised' = "CurrencyMismatchError"
                /\ pc' = "raised"
                /\ UNCHANGED <<equity_curve, idx>>
           ELSE /\ equity_curve' = Append(equity_curve,
                       [date |-> idx, equity |-> r.equity.amount, cash |-> cash.amount,
                        holdingsValue |-> r.holdings_value, holdings |-> r.holdings])
                /\ raised' = raised
                /\ IF loop_continues(idx, end_idx)
                   THEN idx' = idx + 1 /\ pc' = "update_peaks"
                   ELSE idx' = idx /\ pc' = "finished"
    /\ UNCHANGED <<direct, inputs, config, close, sharpe, range, cash, positions, trades, sharpe_fail_counter,
                   growth_fail_counter, not_selected_counter, weakness_counter, result>>

\* the end of run(): return self._calculate_result(start_idx, end_idx)
CalculateResult ==
    /\ pc = "finished"
    /\ \E r \in {calculate_result(config, fx, Today, start_idx, end_idx, Engine, equity_curve)} :
           IF IsRaised(r.final_equity)
           THEN /\ raised' = "CurrencyMismatchError"
                /\ pc' = "raised"
                /\ result' = result
           ELSE /\ result' = r
                /\ raised' = raised
                /\ pc' = "returned"
    /\ UNCHANGED <<direct, inputs, config, close, sharpe, range, idx, cash, positions, trades, equity_curve,
                   sharpe_fail_counter, growth_fail_counter, not_selected_counter,
                   weakness_counter>>

Next ==
    \/ LoadConfig
    \/ ResolveDateRange
    \/ UpdatePeaks
    \/ ProcessSells
    \/ ProcessRebalance
    \/ AppendEquity
    \/ CalculateResult

Spec == Init /\ [][Next]_vars

\* ------------------------------------------------------------ direct calls
\* The value types and helpers called on their own, as the unit tests do:
\* the arguments are drawn at the start, each step applies one operation and
\* appends its outcome to ret.  No engine runs.
engine_vars ==
    <<user_params, config, fx, data, close, sharpe, start_idx, end_idx, idx, pc, cash,
      positions, trades, equity_curve, sharpe_fail_counter, growth_fail_counter,
      not_selected_counter, weakness_counter, raised, result>>

NoEngine ==
    /\ user_params = EmptyDict
    /\ config = BaseConfig
    /\ fx = FXEmpty
    /\ data = "varied"
    /\ close = <<>>
    /\ sharpe = <<>>
    /\ start_idx = 0
    /\ end_idx = 0
    /\ idx = 0
    /\ pc = "direct"
    /\ cash = config.initial_capital
    /\ positions = <<>>
    /\ trades = <<>>
    /\ equity_curve = <<>>
    /\ sharpe_fail_counter = EmptyDict
    /\ growth_fail_counter = EmptyDict
    /\ not_selected_counter = EmptyDict
    /\ weakness_counter = EmptyDict
    /\ raised = NoError
    /\ result = NoResult

\* Money values: negative, zero, whole and fractional amounts in both currencies
Monies ==
    {Money(n, d, c) : n \in {-500, 0, 1000, 2500}, d \in {1, 3}, c \in {"TWD", "USD"}}

\* the operators of Money that take a second Money
MoneyOperators == {"+", "-", "<", ">", "<=", ">=", "/"}

\* a and b, and the operator applied first
MoneyCalls ==
    {[fn |-> "Money", a |-> a, b |-> b, op |-> op] :
        a \in Monies, b \in Monies, op \in MoneyOperators}

\* the dates of an FX table ('YYYY-MM-DD' strings, which sort as the days do)
FXDates == 0..3

\* FX tables: any set of dates, each with one of two rates
FXHistories == UNION {[S -> {30, 60}] : S \in SUBSET FXDates}

\* fx.rate(date) for a date inside, between, before or after the table's dates
FXCalls ==
    {[fn |-> "FX.rate", history |-> h, date |-> d] : h \in FXHistories, d \in 0..4}

\* score rows with ties and undefined scores
ScoreRows == [SymbolSet -> {NaN, 10, 20}]

\* calculate_ranking_matrix of the empty matrix, of every one-row matrix and
\* of the matrices of the engine's score rows
RankingCalls ==
    {[fn |-> "calculate_ranking_matrix", sharpe_matrix |-> m] :
        m \in {<<>>} \cup {<<r>> : r \in ScoreRows} \cup [1..MaxDays -> SharpeRows]}

\* the score matrices of an Indicators instance: a column has a score on
\* every date or on none
ScoreMatrices == [1..MaxDays -> SharpeRows]

\* c is a call of check_growth_streak or check_sharpe_streak, for any symbol,
\* date index and streak length of the matrix
IsStreakCall(c) ==
    \E m \in ScoreMatrices, s \in SymbolSet, i \in 0..(MaxDays - 1), n \in 1..MaxDays :
        \/ \E p \in {10, 50, 100} :
              c = [fn |-> "check_growth_streak", m |-> m, symbol |-> s, idx |-> i,
                   days |-> n, percentile |-> p]
        \/ \E k \in {1, 2} :
              c = [fn |-> "check_sharpe_streak", m |-> m, symbol |-> s, idx |-> i,
                   days |-> n, top_n |-> k]

\* the longest sequence of property reads of one instance
MaxAccesses == 3

\* Indicators(close_df, stock_info): every cache field None, nothing computed
IndicatorsInstances ==
    {[fn |-> "Indicators", m |-> m, cache |-> EmptyDict,
      computations |-> [name \in LazyProperties |-> 0]] :
        m \in {x \in ScoreMatrices : \A i \in 2..MaxDays : x[i] = x[2]}}

\* the symbols _select_stocks may take as candidates, in column order
TradableSymbols ==
    FilterSeq(Symbols, {s \in SymbolSet : stock_info[s].industry \notin NON_TRADABLE_INDUSTRIES})

\* the scores of one day: ties within and across industries, a lower and a
\* higher best score for each industry, XNEW with a score or without
SelectRows ==
    {[s \in SymbolSet |->
         CASE s = "AAPL"    -> a
           [] s = "MSFT"    -> b
           [] s = "2330.TW" -> t
           [] s = "^GSPC"   -> 10
           [] OTHER         -> x] :
        a \in {-10, 10, 20}, b \in {-10, 10, 20}, t \in {-10, 10, 20}, x \in {NaN, 10, 20}}

\* c is the sort_industry branch of _select_stocks entered with the symbols
\* of keep as candidates (those that passed _check_buy), on a day with the
\* scores of row
IsSortIndustryCall(c) ==
    \E row \in SelectRows, keep \in SUBSET Range(TradableSymbols), n \in 1..3 :
        c = [fn |-> "sort_industry", m |-> <<row>>, idx |-> 0,
             candidates |-> FilterSeq(TradableSymbols, keep),
             config |-> [BaseConfig EXCEPT
                            !.buy_conditions.sort_industry =
                                [enabled |-> TRUE, per_industry |-> n]]]

\* an engine with the given cash and no position, trade or counter
EngineWith(c) ==
    [cash |-> c, positions |-> <<>>, trades |-> <<>>,
     sharpe_fail_counter |-> EmptyDict, growth_fail_counter |-> EmptyDict,
     not_selected_counter |-> EmptyDict, weakness_counter |-> EmptyDict,
     raised |-> NoError]

\* the lists of distinct tradable symbols, in any order
BuyLists ==
    UNION {{l \in [1..n -> Range(TradableSymbols)] : \A i, j \in 1..n : l[i] = l[j] => i = j} :
              n \in 0..Len(TradableSymbols)}

\* c is a call of _buy_stocks(symbols, idx, date_str, amount_per_stock) on an
\* engine with some cash: more than the budgets of all symbols, about one
\* budget, less than half of it, none
IsBuyStocksCall(c) ==
    \E units \in {0, 400, 499, 500, 700, 1100, 2100, 5000},
       budget \in {300, 1000, 2000},
       symbols \in BuyLists,
       row \in PriceRows \cup ConstantPriceRows,
       history \in {FXEmpty, FXDoubles} :
        c = [fn |-> "_buy_stocks", E |-> EngineWith(twd(units)), symbols |-> symbols,
             idx |-> 0, row |-> row, fx |-> history, amount_per_stock |-> twd(budget)]

DirectCalls == MoneyCalls \cup FXCalls \cup RankingCalls \cup IndicatorsInstances

\* a op b
MoneyApply(op, a, b) ==
    CASE op = "+"  -> Money_add(a, b)
      [] op = "-"  -> Money_sub(a, b)
      [] op = "<"  -> Money_lt(a, b)
      [] op = ">"  -> Money_gt(a, b)
      [] op = "<=" -> Money_le(a, b)
      [] op = ">=" -> Money_ge(a, b)
      [] op = "/"  -> Money_truediv(a, b)

\* the expression a op b
MoneyOperation ==
    /\ call.fn = "Money"
    /\ ret = <<>>
    /\ ret' = <<MoneyApply(call.op, call.a, call.b)>>
    /\ UNCHANGED <<call, engine_vars>>

\* the expression (a + b) - b, once a + b has returned
MoneyAddThenSub ==
    /\ call.fn = "Money"
    /\ call.op = "+"
    /\ Len(ret) = 1
    /\ ret[1].raised = ""
    /\ ret' = Append(ret, Money_sub(ret[1].value, call.b))
    /\ UNCHANGED <<call, engine_vars>>

\* FX.rate(date)
FXRateCall ==
    /\ call.fn = "FX.rate"
    /\ ret = <<>>
    /\ ret' = <<Returned(FXrate(call.history, call.date))>>
    /\ UNCHANGED <<call, engine_vars>>

\* calculate_ranking_matrix(sharpe_matrix)
RankingCall ==
    /\ call.fn = "calculate_ranking_matrix"
    /\ ret = <<>>
    /\ ret' = <<Returned(calculate_ranking_matrix(call.sharpe_matrix))>>
    /\ UNCHANGED <<call, engine_vars>>

\* Indicators.check_growth_streak(symbol, idx, days, percentile)
GrowthStreakCall ==
    /\ call.fn = "check_growth_streak"
    /\ ret = <<>>
    /\ ret' = <<Returned(check_growth_streak(call.m, call.symbol, call.idx, call.days,
                                             call.percentile))>>
    /\ UNCHANGED <<call, engine_vars>>

\* Indicators.check_sharpe_streak(symbol, idx, days, top_n)
SharpeStreakCall ==
    /\ call.fn = "check_sharpe_streak"
    /\ ret = <<>>
    /\ ret' = <<Returned(check_sharpe_streak(call.m, call.symbol, call.idx, call.days,
                                             call.top_n))>>
    /\ UNCHANGED <<call, engine_vars>>

\* a read of one of the lazy properties of the instance: the instance keeps
\* what was computed, the read returns the cached value
PropertyAccess ==
    /\ call.fn = "Indicators"
    /\ Len(ret) < MaxAccesses
    /\ \E name \in LazyProperties :
          /\ call' = AccessProperty(call, name)
          /\ ret' = Append(ret, [name |-> name, value |-> call'.cache[name]])
    /\ UNCHANGED engine_vars

\* _select_stocks from the grouping of the candidates to the returned list
SortIndustryCall ==
    /\ call.fn = "sort_industry"
    /\ ret = <<>>
    /\ ret' = <<Returned(sort_industry(call.config, call.m, call.idx, call.candidates))>>
    /\ UNCHANGED <<call, engine_vars>>

\* BacktestEngine._buy_stocks(symbols, idx, date_str, amount_per_stock)
BuyStocksCall ==
    /\ call.fn = "_buy_stocks"
    /\ ret = <<>>
    /\ ret' = <<Returned(buy_stocks(config, call.fx, call.row, call.idx, call.symbols,
                                    call.amount_per_stock, call.E))>>
    /\ UNCHANGED <<call, engine_vars>>

DirectInit ==
    /\ NoEngine
    /\ \/ call \in DirectCalls
       \/ IsStreakCall(call)
       \/ IsSortIndustryCall(call)
       \/ IsBuyStocksCall(call)
    /\ ret = <<>>

DirectNext ==
    \/ MoneyOperation
    \/ MoneyAddThenSub
    \/ FXRateCall
    \/ RankingCall
    \/ GrowthStreakCall
    \/ SharpeStreakCall
    \/ PropertyAccess
    \/ SortIndustryCall
    \/ BuyStocksCall

DirectSpec == DirectInit /\ [][DirectNext]_vars


\* ================================================================== claims
\* ------------------------------------------------- helpers of the claims
RECURSIVE SumOver(_, _)
\* the sum of f[x] over the finite set S
SumOver(S, f) ==
    IF S = {} THEN 0
    ELSE LET x == CHOOSE y \in S : TRUE IN f[x] + SumOver(S \ {x}, f)

\* the day's closing value in TWD thousandths of `shares` of `symbol`
ValueInTwd(symbol, shares, day) ==
    shares * close[day + 1][symbol] * Milli *
        (IF stock_info[symbol].country # "TW" THEN FXrate(fx, day) ELSE 1)

\* a day of the run has just been completed (its snapshot is the last one)
DayEnd == pc \in {"update_peaks", "finished", "returned"} /\ equity_curve # <<>>

LastSnapshot == equity_curve[Len(equity_curve)]

BuyIndexes == {i \in 1..Len(trades) : trades[i].type = "buy"}

SellIndexes == {i \in 1..Len(trades) : trades[i].type = "sell"}

\* the ledger index of the buy that opened the position closed by sell i
BuyOfSell(i) ==
    CHOOSE b \in BuyIndexes :
        /\ b < i
        /\ trades[b].symbol = trades[i].symbol
        /\ \A c \in BuyIndexes : (c < i /\ trades[c].symbol = trades[i].symbol) => c <= b

\* C1: every equity snapshot satisfies equity = cash + the sum over the open
\* positions of shares x the day's price, in TWD at the day's FX rate for a
\* non-TW instrument, and holdingsValue = equity - cash; the snapshot of a
\* day is taken of the cash and the positions the day ends with.
C1_EquityIdentity ==
    /\ \A k \in 1..Len(equity_curve) :
          LET snap == equity_curve[k]
              held == DOMAIN snap.holdings
              value == [s \in held |-> ValueInTwd(s, snap.holdings[s].shares, snap.date)]
          IN  /\ snap.equity = snap.cash + SumOver(held, value)
              /\ snap.holdingsValue = snap.equity - snap.cash
    /\ DayEnd =>
          /\ LastSnapshot.cash = cash.amount
          /\ cash.den = 1
          /\ DOMAIN LastSnapshot.holdings = HeldSymbols(positions)
          /\ \A i \in 1..Len(positions) :
                LastSnapshot.holdings[positions[i].symbol].shares = positions[i].shares

\* C1 witness: a snapshot that values a US and a TW position at an FX rate
\* other than the default
C1_Witness ==
    \E k \in 1..Len(equity_curve) :
        /\ \E s \in DOMAIN equity_curve[k].holdings : stock_info[s].country = "US"
        /\ \E s \in DOMAIN equity_curve[k].holdings : stock_info[s].country = "TW"
        /\ FXrate(fx, equity_curve[k].date) = 60

\* the open positions (symbol -> shares) that replaying the ledger gives:
\* a buy opens the position, a sell closes it
RECURSIVE Replay(_, _)
Replay(ledger, open) ==
    IF ledger = <<>> THEN open
    ELSE Replay(Tail(ledger),
                IF Head(ledger).type = "buy"
                THEN Put(open, Head(ledger).symbol, Head(ledger).shares)
                ELSE Pop(open, Head(ledger).symbol))

\* initial capital - sum of (amount_twd + fee) of the buys
\*                 + sum of (amount_twd - fee) of the sells
LedgerCash ==
    config.initial_capital.amount
    - SumOver(BuyIndexes, [i \in BuyIndexes |->
                              trades[i].amount_twd.amount + trades[i].fee.amount])
    + SumOver(SellIndexes, [i \in SellIndexes |->
                               trades[i].amount_twd.amount - trades[i].fee.amount])

\* C2: at the end of every day, cash equals the cash of the ledger, the open
\* positions and their shares equal the replay of the ledger, and the equity
\* recomputed from the ledger equals the equity recorded in the curve.
C2_LedgerReplay ==
    DayEnd =>
        LET open == Replay(trades, EmptyDict)
            day  == LastSnapshot.date
        IN  /\ cash.amount = LedgerCash
            /\ cash.den = 1
            /\ DOMAIN open = HeldSymbols(positions)
            /\ \A i \in 1..Len(positions) : open[positions[i].symbol] = positions[i].shares
            /\ LastSnapshot.equity =
                  LedgerCash + SumOver(DOMAIN open,
                                  [s \in DOMAIN open |-> ValueInTwd(s, open[s], day)])

\* C2 witness: a day ends with a position open after a buy and a sell of
\* another day
C2_Witness ==
    /\ DayEnd
    /\ positions # <<>>
    /\ SellIndexes # {}
    /\ \E i \in BuyIndexes : stock_info[trades[i].symbol].country = "US"

\* the run's capital and per-stock budget are TWD values
TwdConfig ==
    /\ config.initial_capital.currency = "TWD"
    /\ config.amount_per_stock.currency = "TWD"

\* C3: when the initial capital and the per-stock budget are TWD values, no
\* step raises CurrencyMismatchError, and cash, every cost basis and every
\* trade's amount_twd, fee and profit are TWD.
C3_NoCurrencyMismatch ==
    TwdConfig =>
        /\ raised # "CurrencyMismatchError"
        /\ pc # "raised"
        /\ cash.currency = "TWD"
        /\ \A i \in 1..Len(positions) : positions[i].cost_basis.currency = "TWD"
        /\ \A i \in 1..Len(trades) :
              /\ trades[i].amount_twd.currency = "TWD"
              /\ trades[i].fee.currency = "TWD"
              /\ trades[i].profit.currency = "TWD"

\* C3 witness: a TWD-configured run has bought and sold a US instrument and
\* holds a TW one at the end of a day
C3_Witness ==
    /\ TwdConfig
    /\ DayEnd
    /\ \E i \in SellIndexes : stock_info[trades[i].symbol].country = "US"
    /\ \E i \in 1..Len(positions) : positions[i].country = "TW"


\* C5: the number of open positions never exceeds max_positions, and a step
\* opens at most (max_positions - open positions) new positions.
C5_MaxPositions ==
    [][/\ Len(positions') <= config.max_positions
       /\ Len(positions') - Len(positions)
             <= Max(0, config.max_positions - Len(positions))]_vars

\* C5 witness: the day's buys filled the last slot while a candidate of the
\* day stayed unheld
C5_Witness ==
    /\ pc = "append_equity"
    /\ Len(positions) = config.max_positions
    /\ \E i \in BuyIndexes : trades[i].date = idx
    /\ \E s \in Range(select_stocks(config, sharpe, idx)) : s \notin HeldSymbols(positions)

\* amount_twd + fee of the trades with ledger indexes in S, in thousandths
CostOf(ledger, S) ==
    SumOver(S, [i \in S |-> ledger[i].amount_twd.amount + ledger[i].fee.amount])

\* C6: every buy trade has shares = floor(budget in the instrument's currency
\* at the day's FX rate / price) >= 1, fee = max(amount in TWD x rate,
\* min_fee), amount + fee <= the cash just before it; the cash after the buys
\* is the cash before less amount + fee of each, and the cost basis of the new
\* position is amount + fee.  (The budget is amount_per_stock, or under batch
\* cash x batch_ratio / number of symbols to buy.)
C6_BuyTrade ==
    [][pc = "process_rebalance" =>
         LET new    == (Len(trades) + 1)..Len(trades')
             n      == Min(Len(FilterSeq(select_stocks(config, sharpe, idx),
                                         SymbolSet \ HeldSymbols(positions))),
                           config.max_positions - Len(positions))
             batch  == config.rebalance_strategy.type = "batch"
             budget_num == IF batch THEN cash.amount * config.rebalance_strategy.batch_ratio
                           ELSE config.amount_per_stock.amount
             budget_den == IF batch THEN cash.den * 100 * n
                           ELSE config.amount_per_stock.den
         IN  /\ \A k \in new :
                  LET t      == trades'[k]
                      is_us  == stock_info[t.symbol].country # "TW"
                      rate   == IF is_us THEN FXrate(fx, idx) ELSE 1
                      price  == close[idx + 1][t.symbol]
                      fees   == IF is_us THEN FEES.us ELSE FEES.tw
                      before == cash.amount - CostOf(trades', {j \in new : j < k})
                      pos    == PositionOf(positions', t.symbol)
                  IN  /\ t.type = "buy"
                      /\ t.date = idx
                      /\ t.shares = FloorDiv(budget_num, budget_den * rate * price * Milli)
                      /\ t.shares >= 1
                      /\ t.amount_twd = Money(t.shares * price * rate * Milli, 1, "TWD")
                      /\ t.fee.amount * 1000 =
                            t.fee.den * Max(t.amount_twd.amount * fees.rate,
                                            fees.min_fee * Milli * 1000)
                      /\ t.amount_twd.amount + t.fee.amount <= before
                      /\ pos.shares = t.shares
                      /\ pos.cost_basis.amount = t.amount_twd.amount + t.fee.amount
             /\ raised' = NoError => cash'.amount = cash.amount - CostOf(trades', new)]_vars

\* C6 witness: a batch run has bought a US and a TW instrument, the US one
\* at an FX rate other than the default
C6_Witness ==
    /\ config.rebalance_strategy.type = "batch"
    /\ \E i \in BuyIndexes :
          /\ stock_info[trades[i].symbol].country = "US"
          /\ FXrate(fx, trades[i].date) # DEFAULT_RATE
    /\ \E i \in BuyIndexes : stock_info[trades[i].symbol].country = "TW"

\* C7: every sell closes the whole position, credits cash with the proceeds in
\* TWD at the sell day's FX rate less the fee, and records profit = proceeds
\* - cost basis - fee; for a foreign instrument sold at its buy price on a
\* day whose FX rate is twice the buy day's, profit = shares x price x
\* buy-day rate - buy fee - sell fee.
C7_SellTrade ==
    [][pc = "process_sells" =>
         LET new == (Len(trades) + 1)..Len(trades')
         IN  /\ \A k \in new :
                  LET t   == trades'[k]
                      pos == PositionOf(positions, t.symbol)
                      buy == trades[CHOOSE b \in BuyIndexes :
                                 /\ trades[b].symbol = t.symbol
                                 /\ \A c \in BuyIndexes :
                                       trades[c].symbol = t.symbol => c <= b]
                  IN  /\ t.type = "sell"
                      /\ t.symbol \in HeldSymbols(positions)
                      /\ t.symbol \notin HeldSymbols(positions')
                      /\ t.shares = pos.shares
                      /\ t.amount_twd.amount = ValueInTwd(t.symbol, pos.shares, idx)
                      /\ t.profit.amount =
                            t.amount_twd.amount - pos.cost_basis.amount - t.fee.amount
                      /\ (/\ pos.country # "TW"
                          /\ close[idx + 1][t.symbol] * Milli = pos.buy_price.amount
                          /\ FXrate(fx, idx) = 2 * FXrate(fx, pos.buy_date))
                         => t.profit.amount =
                               pos.shares * close[idx + 1][t.symbol]
                                   * FXrate(fx, pos.buy_date) * Milli
                               - buy.fee.amount - t.fee.amount
             /\ raised' = NoError =>
                  cash'.amount = cash.amount
                      + SumOver(new, [k \in new |-> trades'[k].amount_twd.amount
                                                       - trades'[k].fee.amount])]_vars

\* C7 witness: a US position was sold at its buy price on a day whose FX rate
\* is twice the buy day's
C7_Witness ==
    \E i \in SellIndexes :
        /\ stock_info[trades[i].symbol].country = "US"
        /\ trades[i].price = trades[BuyOfSell(i)].price
        /\ FXrate(fx, trades[i].date) = 2 * FXrate(fx, trades[BuyOfSell(i)].date)

\* C8 (as claimed): the fee of every trade is max(amount in TWD x rate,
\* min_fee) with the rate and min_fee of the fee schedule of the run's
\* configuration for the instrument's market.
C8_FeeFromConfig ==
    \A i \in 1..Len(trades) :
        LET t    == trades[i]
            fees == IF stock_info[t.symbol].country # "TW"
                    THEN config.fees.us ELSE config.fees.tw
        IN  t.fee.amount * 1000 =
                t.fee.den * Max(t.amount_twd.amount * fees.rate,
                                fees.min_fee * Milli * 1000)


\* whether sell rule r (1..5, in the documented order) would fire today for
\* the held position pos, told from the counters before the day's check
WouldFire(r, pos) ==
    LET sc      == config.sell_conditions
        sym     == pos.symbol
        country == stock_info[sym].country
        Bumped(counter, cond) == IF cond THEN Get(counter, sym, 0) + 1 ELSE 0
        gv      == growth_values(sharpe, sym, idx, sc.growth_fail.days)
        ref     == IF sc.drawdown.from_highest /\ pos.peak_price # 0
                   THEN pos.peak_price * Milli ELSE pos.buy_price.amount
        spos    == get_sharpe_rank_position(sharpe, sym, idx, country)
        gpos    == get_growth_rank_position(sharpe, sym, idx, country)
    IN  CASE r = 1 ->
               /\ sc.sharpe_fail.enabled
               /\ Bumped(sharpe_fail_counter,
                         ~check_in_sharpe_top_k(sharpe, sym, idx, country,
                                                sc.sharpe_fail.top_n))
                     >= sc.sharpe_fail.periods
          [] r = 2 ->
               /\ sc.growth_fail.enabled
               /\ gv # <<>>
               /\ SeqSum(gv) < sc.growth_fail.threshold * Len(gv)
          [] r = 3 ->
               /\ sc.not_selected.enabled
               /\ Bumped(not_selected_counter,
                         sym \notin Range(select_stocks(config, sharpe, idx)))
                     >= sc.not_selected.periods
          [] r = 4 ->
               /\ sc.drawdown.enabled
               /\ ref > 0
               /\ (ref - close[idx + 1][sym] * Milli) * 100 >= sc.drawdown.threshold * ref
          [] r = 5 ->
               /\ sc.weakness.enabled
               /\ Bumped(weakness_counter,
                         /\ (spos < 0 \/ spos >= sc.weakness.rank_k)
                         /\ (gpos < 0 \/ gpos >= sc.weakness.rank_k))
                     >= sc.weakness.periods

\* C9: the enabled sell rules are checked in the order sharpe_fail,
\* growth_fail, not_selected, drawdown, weakness; a held position for which
\* at least one of them fires is sold exactly once that day, with the reason
\* of the first one in that order, and a position for which none fires is
\* not sold.
C9_SellRuleOrder ==
    [][pc = "process_sells" =>
         LET new == (Len(trades) + 1)..Len(trades')
         IN  /\ \A k \in new : trades'[k].symbol \in HeldSymbols(positions)
             /\ \A p \in 1..Len(positions) :
                  LET pos    == positions[p]
                      firing == {r \in 1..5 : WouldFire(r, pos)}
                      sold   == {k \in new : trades'[k].symbol = pos.symbol}
                  IN  IF firing = {} THEN sold = {}
                      ELSE /\ Cardinality(sold) = 1
                           /\ \A k \in sold :
                                 /\ trades'[k].type = "sell"
                                 /\ trades'[k].reason =
                                       SellReasons[CHOOSE r \in firing :
                                                      \A q \in firing : r <= q]]_vars

\* C9 witness: a position was sold today for growth_fail although it was
\* also left out of the day's selection and had fallen past the drawdown
\* threshold (two later rules firing as well)
C9_Witness ==
    /\ pc = "process_rebalance"
    /\ config.sell_conditions.not_selected.enabled
    /\ config.sell_conditions.not_selected.periods = 1
    /\ config.sell_conditions.drawdown.enabled
    /\ \E i \in SellIndexes :
          LET t == trades[i]
          IN  /\ t.date = idx
              /\ t.reason = "growth_fail"
              /\ t.symbol \notin Range(select_stocks(config, sharpe, idx))
              /\ (trades[BuyOfSell(i)].price.amount - t.price.amount) * 100
                    >= config.sell_conditions.drawdown.threshold
                           * trades[BuyOfSell(i)].price.amount

\* the periodic rules, which count consecutive days
CounterRules == {"sharpe_fail", "not_selected", "weakness"}

\* whether the condition of the periodic rule holds for the symbol on day d
RuleCondition(rule, symbol, d) ==
    LET sc      == config.sell_conditions
        country == stock_info[symbol].country
        spos    == get_sharpe_rank_position(sharpe, symbol, d, country)
        gpos    == get_growth_rank_position(sharpe, symbol, d, country)
    IN  CASE rule = "sharpe_fail" ->
               ~check_in_sharpe_top_k(sharpe, symbol, d, country, sc.sharpe_fail.top_n)
          [] rule = "not_selected" ->
               symbol \notin Range(select_stocks(config, sharpe, d))
          [] rule = "weakness" ->
               /\ (spos < 0 \/ spos >= sc.weakness.rank_k)
               /\ (gpos < 0 \/ gpos >= sc.weakness.rank_k)

\* the number of consecutive most recent days in from+1..to on which the
\* condition of the rule held for the symbol
RECURSIVE Streak(_, _, _, _)
Streak(rule, symbol, from, to) ==
    IF to <= from THEN 0
    ELSE IF RuleCondition(rule, symbol, to)
         THEN 1 + Streak(rule, symbol, from, to - 1)
         ELSE 0

\* the counter the engine keeps for the rule and the symbol (0 when absent)
CounterOf(rule, symbol) ==
    CASE rule = "sharpe_fail"  -> Get(sharpe_fail_counter, symbol, 0)
      [] rule = "not_selected" -> Get(not_selected_counter, symbol, 0)
      [] rule = "weakness"     -> Get(weakness_counter, symbol, 0)

\* the last day whose sell checks are done
CheckedThrough ==
    IF pc \in {"process_rebalance", "append_equity", "finished", "returned"}
    THEN idx ELSE idx - 1

\* C10: the counter of an enabled periodic rule for a held symbol is the
\* number of consecutive most recent days since the buy on which the rule's
\* condition held (so a day on which it does not hold resets it to 0), it
\* stays below `periods` while the position is held, and a sale for that rule
\* happens on the first day the streak reaches `periods`.
C10_CounterStreak ==
    raised = NoError =>
        \A rule \in CounterRules :
            config.sell_conditions[rule].enabled =>
                /\ \A p \in 1..Len(positions) :
                      LET pos == positions[p]
                      IN  /\ CounterOf(rule, pos.symbol)
                                = Streak(rule, pos.symbol, pos.buy_date, CheckedThrough)
                          /\ CounterOf(rule, pos.symbol) < config.sell_conditions[rule].periods
                /\ \A i \in SellIndexes :
                      trades[i].reason = rule =>
                          Streak(rule, trades[i].symbol, trades[BuyOfSell(i)].date,
                                 trades[i].date)
                              = config.sell_conditions[rule].periods

\* C10 witness: with periods = 2 a position was sold for a periodic rule, and
\* a position bought two days before is held with a counter that was reset
\* to 0 today after the rule's condition had held the day before
C10_Witness ==
    /\ pc = "finished"
    /\ \E i \in SellIndexes :
          /\ trades[i].reason \in CounterRules
          /\ config.sell_conditions[trades[i].reason].periods = 2
    /\ \E p \in 1..Len(positions), rule \in CounterRules :
          /\ config.sell_conditions[rule].enabled
          /\ config.sell_conditions[rule].periods = 2
          /\ positions[p].buy_date < idx - 1
          /\ CounterOf(rule, positions[p].symbol) = 0
          /\ RuleCondition(rule, positions[p].symbol, idx - 1)


\* the four per-symbol rule counters of the engine
AllCounters ==
    <<sharpe_fail_counter, growth_fail_counter, not_selected_counter, weakness_counter>>

\* C11: rule counters exist only for held symbols (a sell removes every
\* counter of the sold symbol), and a position that has not been through a
\* sell check since it was bought, for the first time or again, has all its
\* counters at zero.
C11_CountersOnlyForHeld ==
    raised = NoError =>
        \A c \in 1..Len(AllCounters) :
            /\ DOMAIN AllCounters[c] \subseteq HeldSymbols(positions)
            /\ \A p \in 1..Len(positions) :
                  positions[p].buy_date = CheckedThrough
                      => Get(AllCounters[c], positions[p].symbol, 0) = 0

\* C11 witness: a symbol sold for a periodic rule (its counter had reached
\* `periods`) was bought again today and is held
C11_Witness ==
    /\ pc = "append_equity"
    /\ \E i \in SellIndexes, j \in BuyIndexes :
          /\ i < j
          /\ trades[i].symbol = trades[j].symbol
          /\ trades[i].reason \in CounterRules
          /\ trades[j].date = idx
          /\ trades[j].symbol \in HeldSymbols(positions)


ScenarioA == config = CfgScenarioA /\ data = "constant"

PassesBuyFilters(symbol, d) ==
    LET bc      == config.buy_conditions
        country == stock_info[symbol].country
    IN  /\ bc.sharpe_rank.enabled =>
              check_in_sharpe_top_k(sharpe, symbol, d, country, bc.sharpe_rank.top_n)
        /\ bc.sharpe_threshold.enabled =>
              /\ sharpe[d + 1][symbol] # NaN
              /\ sharpe[d + 1][symbol] >= bc.sharpe_threshold.threshold
        /\ bc.sharpe_streak.enabled =>
              check_sharpe_streak(sharpe, symbol, d, bc.sharpe_streak.days,
                                  bc.sharpe_streak.top_n)
        /\ bc.growth_rank.enabled =>
              check_in_growth_top_k(sharpe, symbol, d, country, bc.growth_rank.top_n)
        /\ bc.growth_streak.enabled =>
              check_growth_streak(sharpe, symbol, d, bc.growth_streak.days,
                                  bc.growth_streak.percentile)

\* the symbol's score has been undefined or below the buy threshold on every
\* day so far
AlwaysBelowThreshold(symbol) ==
    \A d \in 1..Len(sharpe) :
        \/ sharpe[d][symbol] = NaN
        \/ sharpe[d][symbol] < config.buy_conditions.sharpe_threshold.threshold

\* C14: every buy trade is for a symbol that on its day passes all enabled
\* buy filters, is not of a non-tradable industry and has a defined, positive
\* price; so with sharpe_threshold enabled a symbol always below the
\* threshold is never held and has no trade in the ledger.
C14_BuysPassFilters ==
    /\ \A i \in BuyIndexes :
          LET t == trades[i]
          IN  /\ PassesBuyFilters(t.symbol, t.date)
              /\ stock_info[t.symbol].industry \notin {"Market Index", "Index"}
              /\ close[t.date + 1][t.symbol] # NaN
              /\ close[t.date + 1][t.symbol] > 0
    /\ config.buy_conditions.sharpe_threshold.enabled =>
          \A s \in SymbolSet :
              AlwaysBelowThreshold(s) =>
                  /\ s \notin HeldSymbols(positions)
                  /\ \A i \in 1..Len(trades) : trades[i].symbol # s

\* C14 witness: a run with sharpe_threshold enabled has ended with a buy in
\* its ledger and a tradable symbol whose score was defined and below the
\* threshold on every day
C14_Witness ==
    /\ pc = "finished"
    /\ config.buy_conditions.sharpe_threshold.enabled
    /\ BuyIndexes # {}
    /\ \E s \in SymbolSet :
          /\ stock_info[s].industry \notin {"Market Index", "Index"}
          /\ AlwaysBelowThreshold(s)
          /\ \A d \in 1..Len(sharpe) : sharpe[d][s] # NaN


\* the day's candidates that are not held when the rebalance step starts
NewCandidates ==
    FilterSeq(select_stocks(config, sharpe, idx), SymbolSet \ HeldSymbols(positions))

\* every buy of a batch rebalance step has the shares of the budget
\* cash x batch_ratio / n, with the cash at the start of the step
BatchBudgetIs(n) ==
    (pc = "process_rebalance" /\ config.rebalance_strategy.type = "batch") =>
        \A k \in (Len(trades) + 1)..Len(trades') :
            LET t     == trades'[k]
                rate  == IF stock_info[t.symbol].country # "TW"
                         THEN FXrate(fx, idx) ELSE 1
                price == close[idx + 1][t.symbol]
            IN  t.shares = FloorDiv(cash.amount * config.rebalance_strategy.batch_ratio,
                                    cash.den * 100 * n * rate * price * Milli)

\* C15 (as claimed): under batch the budget of each stock is the cash at the
\* start of the rebalance step x batch_ratio divided by the number of the
\* day's candidates that are not already held.
C15_BatchBudget_Claimed == [][BatchBudgetIs(Len(NewCandidates))]_vars

\* C15 (amended): under batch the budget of each stock is the cash at the
\* start of the rebalance step x batch_ratio divided by the number of symbols
\* to buy, which is the number of the day's candidates not already held cut
\* to the free position slots; with batch_ratio = 0.5 and two symbols to buy
\* each gets 25% of the cash.
C15_BatchBudget ==
    [][BatchBudgetIs(Min(Len(NewCandidates), config.max_positions - Len(positions)))]_vars

\* C15 witness: a batch step has bought two symbols today although more
\* candidates than free slots were waiting
C15_Witness ==
    LET bought     == {trades[i].symbol : i \in {j \in BuyIndexes : trades[j].date = idx}}
        heldBefore == HeldSymbols(positions) \ bought
        waiting    == Range(select_stocks(config, sharpe, idx)) \ heldBefore
    IN  /\ pc = "append_equity"
        /\ config.rebalance_strategy.type = "batch"
        /\ config.rebalance_strategy.batch_ratio = 50
        /\ Cardinality(bought) = 2
        /\ Cardinality(waiting) > config.max_positions - Cardinality(heldBefore)


\* the highest equity among the first k snapshots of the curve
RECURSIVE RunningPeak(_)
RunningPeak(k) ==
    IF k = 1 THEN equity_curve[1].equity
    ELSE Max(RunningPeak(k - 1), equity_curve[k].equity)

\* (running peak of the curve - equity) / running peak at snapshot k
DrawdownAt(k) == Frac(RunningPeak(k) - equity_curve[k].equity, RunningPeak(k))

\* the equity curve never falls
NonDecreasing ==
    \A k \in 2..Len(equity_curve) : equity_curve[k - 1].equity <= equity_curve[k].equity

\* C16 (as claimed): the reported max drawdown is >= 0, is the maximum over
\* the equity curve of (running peak of the curve - equity) / running peak,
\* and is 0 when the curve is monotonically non-decreasing.
C16_MaxDrawdown ==
    pc = "returned" =>
        /\ result.max_drawdown.num >= 0
        /\ \E k \in 1..Len(equity_curve) : result.max_drawdown = DrawdownAt(k)
        /\ \A k \in 1..Len(equity_curve) :
              ~FracLt(result.max_drawdown.num, result.max_drawdown.den,
                      DrawdownAt(k).num, DrawdownAt(k).den)
        /\ NonDecreasing => result.max_drawdown.num = 0

\* C17: win_trades counts the sell trades with profit > 0 and loss_trades
\* those with profit <= 0, so together they are the sell trades of the
\* ledger, and win_rate = win_trades / sell trades (0 without a sell).
C17_WinLoss ==
    pc = "returned" =>
        LET wins   == {i \in SellIndexes : trades[i].profit.amount > 0}
            losses == {i \in SellIndexes : trades[i].profit.amount <= 0}
            n      == Cardinality(SellIndexes)
        IN  /\ result.win_trades = Cardinality(wins)
            /\ result.loss_trades = Cardinality(losses)
            /\ result.win_trades + result.loss_trades = n
            /\ IF n = 0 THEN result.win_rate.num = 0
               ELSE result.win_rate.num * n = result.win_trades * result.win_rate.den

\* C17 witness: a result with a winning and a losing sell
C17_Witness ==
    /\ pc = "returned"
    /\ result.win_trades >= 1
    /\ result.loss_trades >= 1
    /\ BuyIndexes # {}


\* the rows of the matrix whose date lies in the requested range
RowsInRange ==
    {i \in 0..(MaxDays - 1) :
        /\ config.start_date <= date_of(i)
        /\ date_of(i) <= (IF config.end_date = NoDate THEN today_date ELSE config.end_date)}

\* C18: when the resolved start date is at or after the resolved end date,
\* or no row falls in the requested range (at most one row in the range), a
\* range error is raised before the loop starts: no day is processed, no
\* trade or snapshot is appended and cash is unchanged.
C18_RangeError ==
    Cardinality(RowsInRange) <= 1 =>
        /\ pc \in {"resolve_date_range", "range_error"}
        /\ pc = "range_error" => raised = "ValueError"
        /\ close = <<>>
        /\ trades = <<>>
        /\ positions = <<>>
        /\ equity_curve = <<>>
        /\ cash = config.initial_capital

\* C18 witness: the range error was raised for a range with exactly one row
\* (resolved start = resolved end)
C18_Witness ==
    /\ pc = "range_error"
    /\ raised = "ValueError"
    /\ Cardinality(RowsInRange) = 1

\* the steps left of the run, a number every step lowers
StepsLeft ==
    7 * (end_idx - idx) +
        (CASE pc = "update_peaks"      -> 6
           [] pc = "process_sells"     -> 5
           [] pc = "process_rebalance" -> 4
           [] pc = "append_equity"     -> 3
           [] pc = "finished"          -> 2
           [] pc = "returned"          -> 1
           [] OTHER                    -> 0)

\* the days of the loop so far: every index from start_idx on, once each and
\* in ascending order, one snapshot per processed day
DaysInOrder ==
    (raised = NoError /\ pc \notin {"load_config", "resolve_date_range"}) =>
        /\ start_idx <= idx
        /\ idx <= end_idx
        /\ \A k \in 1..Len(equity_curve) : equity_curve[k].date = start_idx + k - 1
        /\ Len(equity_curve) =
              (IF pc \in {"finished", "returned"} THEN end_idx - start_idx + 1
               ELSE idx - start_idx)
        /\ pc = "returned" =>
              /\ result.equity_curve = equity_curve
              /\ result.days = end_idx - start_idx + 1

\* C19: run() processes every trading-day index from start_idx to end_idx
\* inclusive exactly once in ascending order and then returns a result (every
\* step of the loop lowers the number of steps left); it appends one snapshot
\* per processed day, so the curve has end_idx - start_idx + 1 snapshots with
\* strictly increasing dates.
C19_EveryDayOnce ==
    [][/\ DaysInOrder'
       /\ pc \notin {"load_config", "resolve_date_range"} => StepsLeft' < StepsLeft]_vars

\* C19 witness: a run that starts after the first row has returned its
\* result, with a snapshot for each of its days
C19_Witness ==
    /\ pc = "returned"
    /\ start_idx > 0
    /\ end_idx > start_idx
    /\ Len(result.equity_curve) = end_idx - start_idx + 1

\* C20: a requested start or end date outside the matrix's date range is
\* clamped to the nearest trading date before the loop starts: the run
\* starts at the first row on or after the requested start and ends at the
\* last row on or before the requested end, and the loop's index stays
\* inside the matrix and inside that range.
C20_Clamped ==
    (pc \notin {"load_config", "config_error", "resolve_date_range", "range_error"}) =>
        LET end_req == IF config.end_date = NoDate THEN today_date ELSE config.end_date
        IN  /\ 0 <= start_idx
            /\ end_idx <= MaxDays - 1
            /\ date_of(start_idx) >= config.start_date
            /\ \A i \in 0..(start_idx - 1) : date_of(i) < config.start_date
            /\ date_of(end_idx) <= end_req
            /\ \A i \in (end_idx + 1)..(MaxDays - 1) : date_of(i) > end_req
            /\ config.start_date < FirstDate => start_idx = 0
            /\ end_req > LastDate => end_idx = MaxDays - 1
            /\ start_idx <= idx
            /\ idx <= end_idx
            /\ Len(close) <= MaxDays
            /\ \A k \in 1..Len(equity_curve) :
                  equity_curve[k].date \in start_idx..end_idx

\* C20 witness: a run requested from before the first row to after the last
\* row has returned, having run from the first to the last row
C20_Witness ==
    /\ pc = "returned"
    /\ config.start_date < FirstDate
    /\ config.end_date = NoDate
    /\ equity_curve[1].date = 0
    /\ equity_curve[Len(equity_curve)].date = MaxDays - 1

\* every parameter of the rules and of the chosen strategy lies within the
\* [min, max] that CONDITION_OPTIONS declares for it
InDeclaredRanges(cfg) ==
    LET within(cond_val, params) ==
            \A p \in DOMAIN params :
                p \in DOMAIN cond_val =>
                    params[p].min <= cond_val[p] /\ cond_val[p] <= params[p].max
        all(conds, options) ==
            \A c \in DOMAIN options : c \in DOMAIN conds => within(conds[c], options[c])
        stype == cfg.rebalance_strategy.type
    IN  /\ all(cfg.buy_conditions, CONDITION_OPTIONS.buy_conditions)
        /\ all(cfg.sell_conditions, CONDITION_OPTIONS.sell_conditions)
        /\ stype \in DOMAIN CONDITION_OPTIONS.rebalance_strategies =>
              within(cfg.rebalance_strategy, CONDITION_OPTIONS.rebalance_strategies[stype])

\* C21: when a field of the merged parameters is missing, a number is outside
\* its range (the declared min/max of the rule and strategy parameters
\* included) or market, frequency, strategy type or a fee field is invalid,
\* load_config raises ConfigError and no step of the simulation runs: the
\* program is at load_config or has stopped there with a ConfigError.
C21_ConfigError ==
    LET merged == load_config(user_params).config
    IN  (validate_config_raises(merged) \/ ~InDeclaredRanges(merged)) =>
            /\ pc \in {"load_config", "config_error"}
            /\ pc = "config_error" => raised = "ConfigError"
            /\ close = <<>> /\ equity_curve = <<>> /\ trades = <<>>

\* the exact difference a - b of two amounts is the amount of m
IsDifference(m, a, b) ==
    m.amount * a.den * b.den = (a.amount * b.den - b.amount * a.den) * m.den

IsSum(m, a, b) ==
    m.amount * a.den * b.den = (a.amount * b.den + b.amount * a.den) * m.den

\* C22: Money arithmetic never mixes units.  For a and b of different
\* currencies every one of +, -, <, >, <=, >= and Money / Money raises
\* CurrencyMismatchError; for a and b of the same currency + and - return the
\* sum and the difference tagged with that currency, and (a + b) - b == a.
C22_MoneyUnits ==
    (call.fn = "Money" /\ Len(ret) >= 1) =>
        /\ call.a.currency # call.b.currency =>
              /\ ret[1] = RaisedError("CurrencyMismatchError")
              /\ Len(ret) = 1
        /\ (call.a.currency = call.b.currency /\ call.op = "+") =>
              /\ ret[1].raised = ""
              /\ ret[1].value.currency = call.a.currency
              /\ IsSum(ret[1].value, call.a, call.b)
              /\ Len(ret) = 2 =>
                    /\ ret[2].raised = ""
                    /\ Money_eq(ret[2].value, call.a)
                    /\ ret[2].value.currency = call.a.currency
        /\ (call.a.currency = call.b.currency /\ call.op = "-") =>
              /\ ret[1].raised = ""
              /\ ret[1].value.currency = call.a.currency
              /\ IsDifference(ret[1].value, call.a, call.b)

\* C22 witness: a fractional USD amount plus a different USD amount, minus
\* that amount again, has returned
C22_Witness ==
    /\ call.fn = "Money"
    /\ call.op = "+"
    /\ call.a.currency = "USD"
    /\ call.a.den = 3
    /\ call.b.amount # 0
    /\ call.b # call.a
    /\ Len(ret) = 2

\* C23: FX.rate(date) returns the rate stored for exactly that date if there
\* is one; otherwise the rate of the latest stored date at or before it;
\* otherwise (no stored date at or before it, or an empty table) the
\* fallback constant DEFAULT_RATE.
C23_FXRate ==
    (call.fn = "FX.rate" /\ Len(ret) = 1) =>
        LET h       == call.history
            earlier == {e \in DOMAIN h : e <= call.date}
        IN  /\ call.date \in DOMAIN h => ret[1] = Returned(h[call.date])
            /\ (call.date \notin DOMAIN h /\ earlier # {}) =>
                  \E e \in earlier :
                      /\ \A f \in earlier : f <= e
                      /\ ret[1] = Returned(h[e])
            /\ earlier = {} => ret[1] = Returned(DEFAULT_RATE)

\* C23 witness: the rate of a date absent from a table that has two earlier
\* dates with different rates and a later date has been returned
C23_Witness ==
    /\ call.fn = "FX.rate"
    /\ Len(ret) = 1
    /\ call.date \notin DOMAIN call.history
    /\ \E e, f \in DOMAIN call.history :
          e < f /\ f < call.date /\ call.history[e] # call.history[f]
    /\ \E g \in DOMAIN call.history : g > call.date

\* C24: on every date of the rank matrix, among the symbols with a score: no
\* symbol has a smaller rank number than a symbol with a strictly higher
\* score, a symbol with the best score has rank 1, symbols with equal scores
\* have the same rank, and that rank is the minimum one of the tie (one more
\* than the number of symbols ranked strictly better).
C24_RankOrder ==
    (call.fn = "calculate_ranking_matrix" /\ Len(ret) = 1) =>
        LET scores == call.sharpe_matrix
            ranks  == ret[1].value
        IN  /\ Len(ranks) = Len(scores)
            /\ \A i \in 1..Len(scores) :
                  LET scored == {s \in SymbolSet : scores[i][s] # NaN}
                  IN  \A s \in scored :
                         /\ ranks[i][s] # NaN
                         /\ \A t \in scored :
                               /\ scores[i][t] > scores[i][s] => ranks[i][t] < ranks[i][s]
                               /\ scores[i][t] = scores[i][s] => ranks[i][t] = ranks[i][s]
                         /\ (\A t \in scored : scores[i][t] <= scores[i][s]) =>
                               ranks[i][s] = 1
                         /\ ranks[i][s] =
                               1 + Cardinality({t \in scored : ranks[i][t] < ranks[i][s]})

\* C24 witness: the ranks of a day with two symbols tied for the best score,
\* a lower score and an undefined score have been computed
C24_Witness ==
    /\ call.fn = "calculate_ranking_matrix"
    /\ Len(ret) = 1
    /\ \E i \in 1..Len(call.sharpe_matrix) :
          LET row == call.sharpe_matrix[i]
          IN  /\ row["AAPL"] = 20 /\ row["MSFT"] = 20
              /\ row["2330.TW"] = 10
              /\ row["XNEW"] = NaN
              /\ ret[1].value[i]["2330.TW"] = 3

\* the symbol of the call has a score on every date of the matrix
HasScore == \A i \in 1..Len(call.m) : call.m[i][call.symbol] # NaN

\* C25 as stated: the growth-streak check with percentile = 100 returns true
\* for a symbol with a defined score, for every day index and every streak
\* length.
C25_Percentile100_Claimed ==
    (call.fn = "check_growth_streak" /\ Len(ret) = 1 /\ call.percentile = 100 /\ HasScore) =>
        ret[1] = Returned(TRUE)

\* C25: the growth-streak check with percentile = 100 filters out no symbol
\* whose growth is defined on the days it looks at: it returns true exactly
\* when the symbol has a score and the N days idx-N+1 .. idx all have a
\* previous day (idx >= N; the first date has no growth value), and false
\* when the window is longer than the history or reaches the first date.
C25_Percentile100 ==
    (call.fn = "check_growth_streak" /\ Len(ret) = 1 /\ call.percentile = 100) =>
        ret[1] = Returned(HasScore /\ call.idx >= call.days)

\* C25 witness: with percentile = 100 the check has returned true for a
\* two-day streak of the symbol whose growth was the lowest of its country
\* on the last day
C25_Witness ==
    /\ call.fn = "check_growth_streak"
    /\ Len(ret) = 1
    /\ call.percentile = 100
    /\ call.days = 2
    /\ ret[1] = Returned(TRUE)
    /\ \A t \in SymbolSet \ {call.symbol} :
          (stock_info[t].country = stock_info[call.symbol].country
             /\ call.m[call.idx + 1][t] # NaN) =>
              get_growth(call.m, t, call.idx) > get_growth(call.m, call.symbol, call.idx)

\* the dates idx-N+1 .. idx of a streak call
StreakDates == (call.idx - call.days + 1)..call.idx

RECURSIVE Needed(_)
Needed(name) == IF name = "close" THEN {} ELSE {name} \cup Needed(Prerequisite(name))

\* C27: for one Indicators instance and any sequence of reads of its lazy
\* properties, each derived value is computed at most once, on the first read
\* that needs it (nothing is computed that no read needed), and every later
\* read returns the same cached value: a value once cached is never
\* recomputed or changed.
C27_LazyOnce ==
    (call.fn = "Indicators") =>
        /\ \A name \in LazyProperties :
              /\ call.computations[name] <= 1
              /\ call.computations[name] = 1 <=> name \in DOMAIN call.cache
        /\ DOMAIN call.cache = UNION {Needed(ret[i].name) : i \in 1..Len(ret)}
        /\ \A i \in 1..Len(ret) : ret[i].value = call.cache[ret[i].name]
        /\ \A i, j \in 1..Len(ret) : ret[i].name = ret[j].name => ret[i].value = ret[j].value

\* C27 witness: growth_rank_by_country was read twice after rank had been
\* read first, on a matrix whose ranks change
C27_Witness ==
    /\ call.fn = "Indicators"
    /\ Len(ret) = 3
    /\ ret[1].name = "rank"
    /\ ret[2].name = "growth_rank_by_country"
    /\ ret[3].name = "growth_rank_by_country"
    /\ \E s \in SymbolSet : call.cache["growth"][2][s] > 0

\* C28: while a position is held (the symbol has a position before and after
\* a step), its shares, buy price, average cost, buy date, country and cost
\* basis do not change; only peak_price changes, it never decreases, and it
\* is never below the buy price.
C28_PositionFrame ==
    [][/\ \A i \in 1..Len(positions), j \in 1..Len(positions') :
             positions[i].symbol = positions'[j].symbol =>
                /\ positions'[j] = [positions[i] EXCEPT !.peak_price = positions'[j].peak_price]
                /\ positions'[j].peak_price >= positions[i].peak_price
       /\ \A j \in 1..Len(positions') :
             positions'[j].peak_price * Milli >= positions'[j].buy_price.amount]_vars

\* C28 witness: a position bought on an earlier day has a peak above its buy
\* price and above today's price
C28_Witness ==
    /\ pc = "process_sells"
    /\ \E i \in 1..Len(positions) :
          /\ positions[i].buy_date < idx - 1
          /\ positions[i].peak_price * Milli > positions[i].buy_price.amount
          /\ positions[i].peak_price > Today[positions[i].symbol]

\* x is not below y (an undefined score is below every score)
AtLeast(x, y) == y = NaN \/ (x # NaN /\ x >= y)

\* the candidates of an industry
GroupOf(cands, ind) == {s \in Range(cands) : stock_info[s].industry = ind}

\* the best score of an industry's candidates
BestOf(key, cands, ind) ==
    CHOOSE k \in {key[s] : s \in GroupOf(cands, ind)} :
        \A s \in GroupOf(cands, ind) : AtLeast(k, key[s])

\* the round that placed out[i]: its place among the symbols of its industry
RoundOf(out, i) ==
    Cardinality({j \in 1..i : stock_info[out[j]].industry = stock_info[out[i]].industry})

TopK ==
    MarketSlice(config, sharpe, idx, 0, config.rebalance_strategy.concentrate_top_k)

NextK ==
    MarketSlice(config, sharpe, idx, config.rebalance_strategy.concentrate_top_k,
                2 * config.rebalance_strategy.concentrate_top_k)

\* the symbols of a group that have a score today, their number and the sum
\* of their scores (the mean is ScoreSum / ScoreCount, 0 for an empty group)
Scored(group) == {s \in Range(group) : sharpe[idx + 1][s] # NaN}

ScoreSum(group) == SumOver(Scored(group), sharpe[idx + 1])

ScoreCount(group) == Cardinality(Scored(group))

\* the symbols of the buy trades that the step appends
BoughtInStep ==
    {trades'[k].symbol :
        k \in {j \in (Len(trades) + 1)..Len(trades') : trades'[j].type = "buy"}}

\* C30: under the concentrated strategy a step buys only if the mean score of
\* the next K is <= 0 and the mean of the Top-K is > 0, or the mean of the
\* next K is > 0 and (mean Top-K - mean next K) / |mean next K| >= lead_margin
\* (in percent); every symbol it buys is one of the Top-K; and it opens at
\* most K positions.
C30_Concentrated ==
    [][(config.rebalance_strategy.type = "concentrated" /\ BoughtInStep # {}) =>
          /\ \/ ScoreSum(NextK) <= 0 /\ ScoreSum(TopK) > 0
             \/ /\ ScoreSum(NextK) > 0
                /\ (ScoreSum(TopK) * ScoreCount(NextK) - ScoreSum(NextK) * ScoreCount(TopK)) * 100
                      >= config.rebalance_strategy.lead_margin
                            * ScoreSum(NextK) * ScoreCount(TopK)
          /\ BoughtInStep \subseteq Range(TopK)
          /\ Cardinality(BoughtInStep) <= config.rebalance_strategy.concentrate_top_k]_vars

\* the Top-N of the day: the first top_n of the score ranking of each country
\* of the configured market
TopN == MarketSlice(config, sharpe, idx, 0, config.rebalance_strategy.top_n)

\* C31: under the delayed strategy a step buys only if the mean score of the
\* Top-N is strictly above sharpe_threshold, and never when no symbol of the
\* Top-N has a score.
C31_Delayed ==
    [][(config.rebalance_strategy.type = "delayed" /\ BoughtInStep # {}) =>
          /\ ScoreCount(TopN) > 0
          /\ ScoreSum(TopN) > config.rebalance_strategy.sharpe_threshold * ScoreCount(TopN)]_vars

\* the total cost in TWD of buying `symbol` in the call (0 shares: no buy)
CallShares(symbol) ==
    shares_for(call.fx, call.idx, call.amount_per_stock, call.row[symbol],
               stock_info[symbol].country # "TW")

CallCost(symbol) ==
    LET is_us      == stock_info[symbol].country # "TW"
        amount     == IF is_us
                      THEN to_twd(call.fx, usd(CallShares(symbol) * call.row[symbol]), call.idx)
                      ELSE twd(CallShares(symbol) * call.row[symbol])
    IN  MoneyAdd(amount, fee_of(amount, fee_cfg_of(config, is_us)))

\* the symbols the call bought
CallBought == {ret[1].value.trades[k].symbol : k \in 1..Len(ret[1].value.trades)}

\* the cash left when the loop that only skips reaches position i of the
\* list: the cash of the call less the cost of the buys made before it
\* (prices, budgets and fees of the calls are whole thousandths)
CashAt(i) ==
    LET before == {call.symbols[j] : j \in 1..(i - 1)} \cap CallBought
        spent  == SumOver(before, [s \in SymbolSet |-> CallCost(s).amount])
    IN  Money(call.E.cash.amount - spent, 1, "TWD")

\* C33: the buys of _buy_stocks are those of the loop that skips a symbol
\* exactly when it has no price, zero computed shares or a total cost above
\* the cash left, and goes on through the list: every symbol bought was
\* purchasable at its turn, and every symbol not bought was not, the ones
\* after the early stop included.
C33_EarlyStop ==
    (call.fn = "_buy_stocks" /\ ret # <<>>) =>
        /\ ret[1].value.raised = NoError
        /\ Len(ret[1].value.trades) = Cardinality(CallBought)
        /\ \A i \in 1..Len(call.symbols) :
              LET symbol == call.symbols[i]
                  purchasable ==
                      /\ call.row[symbol] # NaN
                      /\ call.row[symbol] > 0
                      /\ CallShares(symbol) >= 1
                      /\ ~MoneyGt(CallCost(symbol), CashAt(i))
              IN  symbol \in CallBought <=> purchasable

\* C33 witness: the loop bought a symbol, then stopped with less than half the
\* budget in cash and two symbols of the list, both with a price, not reached
C33_Witness ==
    /\ call.fn = "_buy_stocks"
    /\ ret # <<>>
    /\ Len(call.symbols) = 3
    /\ CallBought = {call.symbols[1]}
    /\ MoneyLt(ret[1].value.cash, half_amount(call.amount_per_stock))
    /\ \A i \in 2..3 : call.row[call.symbols[i]] # NaN /\ CallShares(call.symbols[i]) >= 1

\* the candidates of the day: a function of the configuration, the scores
\* and the day alone
DayCandidates == select_stocks(config, sharpe, idx)

\* C32: on a day the not-selected rule and the rebalance step see the same
\* candidates, whatever the cash, the positions and the day's sells: in the
\* sell step a position that stays open has its not-selected counter raised
\* exactly when its symbol is not a candidate of the day, and a position sold
\* for not_selected is not one; in the rebalance step every symbol bought is
\* a candidate of the day.
C32_SameCandidates ==
    [][/\ (pc = "process_sells" /\ config.sell_conditions.not_selected.enabled) =>
             /\ \A s \in HeldSymbols(positions) \cap HeldSymbols(positions') :
                   not_selected_counter'[s] =
                       IF s \in Range(DayCandidates)
                       THEN 0 ELSE Get(not_selected_counter, s, 0) + 1
             /\ \A k \in (Len(trades) + 1)..Len(trades') :
                   trades'[k].reason = "not_selected" =>
                       trades'[k].symbol \notin Range(DayCandidates)
       /\ pc = "process_rebalance" => BoughtInStep \subseteq Range(DayCandidates)]_vars

\* C32 witness: on one day a position stayed open with its not-selected
\* counter raised, and the rebalance step bought a candidate
C32_Witness ==
    /\ pc = "append_equity"
    /\ config.sell_conditions.not_selected.enabled
    /\ \E s \in HeldSymbols(positions) :
          /\ Get(not_selected_counter, s, 0) >= 1
          /\ s \notin Range(DayCandidates)
    /\ \E i \in BuyIndexes : trades[i].date = idx /\ trades[i].symbol \in Range(DayCandidates)

\* the shares and the total cost in TWD of a buy of `symbol` today with the
\* configured per-stock budget
DayShares(symbol) ==
    shares_for(fx, idx, get_amount_per_stock(config), Today[symbol],
               stock_info[symbol].country # "TW")

DayCost(symbol) ==
    LET is_us  == stock_info[symbol].country # "TW"
        amount == IF is_us THEN to_twd(fx, usd(DayShares(symbol) * Today[symbol]), idx)
                  ELSE twd(DayShares(symbol) * Today[symbol])
    IN  MoneyAdd(amount, fee_of(amount, fee_cfg_of(config, is_us)))

\* symbol can be bought now: it has a price, at least one share fits the
\* budget and the cash covers the total cost
Purchasable(symbol) ==
    /\ Today[symbol] # NaN
    /\ Today[symbol] > 0
    /\ get_amount_per_stock(config).currency = "TWD"
    /\ DayShares(symbol) >= 1
    /\ ~MoneyGt(DayCost(symbol), cash)

\* C34: under the immediate strategy, when the day's rebalance step leaves a
\* slot open, no candidate of the day that is not held is purchasable.
C34_BuyUntilFull ==
    (/\ pc = "append_equity"
     /\ config.rebalance_strategy.type = "immediate"
     /\ Len(positions) < config.max_positions) =>
        \A s \in Range(DayCandidates) \ HeldSymbols(positions) : ~Purchasable(s)

\* C35: a step leaves every recorded trade in its place and unchanged (it
\* only appends); along the ledger the dates never decrease, and among the
\* trades of one day no buy comes before a sell.
C35_AppendOnly ==
    [][/\ Len(trades') >= Len(trades)
       /\ SubSeq(trades', 1, Len(trades)) = trades
       /\ \A i, j \in 1..Len(trades') :
             i < j =>
                /\ trades'[i].date <= trades'[j].date
                /\ (trades'[i].date = trades'[j].date /\ trades'[i].type = "buy") =>
                      trades'[j].type = "buy"]_vars

\* C35 witness: a buy of an earlier day, then a day with a sell followed by
\* a buy
C35_Witness ==
    /\ Len(trades) >= 3
    /\ trades[1].type = "buy"
    /\ trades[1].date < trades[2].date
    /\ trades[2].type = "sell"
    /\ trades[3].type = "buy"
    /\ trades[3].date = trades[2].date

\* C36: the cash balance is never negative.
C36_CashNonNegative == cash.amount >= 0

\* the ledger indexes of the trades of a symbol
TradesOf(symbol) == {i \in 1..Len(trades) : trades[i].symbol = symbol}

\* the trade of the symbol just before trade i (0 when i is its first)
PreviousTradeOf(i) ==
    LET earlier == {j \in TradesOf(trades[i].symbol) : j < i}
    IN  IF earlier = {} THEN 0 ELSE CHOOSE j \in earlier : \A k \in earlier : k <= j

\* C37: in the ledger the first trade of a symbol is a buy, a buy of a
\* symbol follows a sell of it and a sell follows a buy, and a sell has the
\* share count of the buy before it.
C37_Alternate ==
    \A i \in 1..Len(trades) :
        LET j == PreviousTradeOf(i)
        IN  IF j = 0 THEN trades[i].type = "buy"
            ELSE IF trades[i].type = "buy" THEN trades[j].type = "sell"
            ELSE /\ trades[j].type = "buy"
                 /\ trades[i].shares = trades[j].shares

\* C37 witness: a symbol bought, sold and bought again, with different share
\* counts in the two buys
C37_Witness ==
    \E i, j, k \in 1..Len(trades) :
        /\ i < j /\ j < k
        /\ TradesOf(trades[i].symbol) = {i, j, k}
        /\ trades[i].shares # trades[k].shares

\* the engine as the step leaves it
EngineAfter ==
    [cash |-> cash', positions |-> positions', trades |-> trades',
     sharpe_fail_counter |-> sharpe_fail_counter',
     growth_fail_counter |-> growth_fail_counter',
     not_selected_counter |-> not_selected_counter',
     weakness_counter |-> weakness_counter', raised |-> raised']

\* the configuration with another rebalance_freq
WithFreq(freq) == [config EXCEPT !.rebalance_freq = freq]

\* C38: rebalance_freq influences no step: from every state the sell step and
\* the rebalance step leave the engine (cash, positions, ledger, counters) as
\* they would under daily, weekly or monthly, and the rebalance step is taken
\* on every day; so runs that differ in rebalance_freq alone go through the
\* same ledgers and equity curves.
C38_FreqIgnored ==
    [][\A freq \in {"daily", "weekly", "monthly"} :
          /\ pc = "process_sells" =>
                /\ EngineAfter = process_sells(WithFreq(freq), fx, sharpe, Today, idx, Engine)
                /\ pc' \in {"process_rebalance", "raised"}
          /\ pc = "process_rebalance" =>
                EngineAfter = process_rebalance(WithFreq(freq), fx, sharpe, Today, idx, Engine)]_vars

\* C38 witness: under weekly a buy was made on a day of the same week as the
\* day before, which _is_rebalance_day does not count as a rebalance day
C38_Witness ==
    /\ pc = "append_equity"
    /\ config.rebalance_freq = "weekly"
    /\ ~is_rebalance_day(config, idx)
    /\ \E i \in BuyIndexes : trades[i].date = idx

\* the realized profit of the ledger and the cost basis of the open
\* positions, in TWD thousandths
RealizedProfit == SumOver(SellIndexes, [i \in SellIndexes |-> trades[i].profit.amount])

OpenCostBasis ==
    SumOver(1..Len(positions), [i \in 1..Len(positions) |-> positions[i].cost_basis.amount])

\* C39: once the run has its configuration, cash = initial capital + the
\* realized profit of all sell trades - the cost basis of all open positions
\* (all in whole thousandths of TWD); at the end of a day without an open
\* position, equity - initial capital is the realized profit of the ledger.
C39_CashIdentity ==
    pc \notin {"load_config", "config_error"} =>
        /\ \A i \in SellIndexes : trades[i].profit.den = 1 /\ trades[i].profit.currency = "TWD"
        /\ \A i \in 1..Len(positions) :
              positions[i].cost_basis.den = 1 /\ positions[i].cost_basis.currency = "TWD"
        /\ cash.den = 1
        /\ cash.amount = config.initial_capital.amount + RealizedProfit - OpenCostBasis
        /\ (DayEnd /\ positions = <<>>) =>
              LastSnapshot.equity - config.initial_capital.amount = RealizedProfit

\* C39 witness: a day ended with a position closed at a loss, another closed
\* at a gain or still open, and the ledger's profit not zero
C39_Witness ==
    /\ DayEnd
    /\ positions # <<>>
    /\ \E i \in SellIndexes : trades[i].profit.amount < 0
    /\ RealizedProfit # 0
    /\ OpenCostBasis > 0

\* C39 second witness state: a day ended with every position closed
C39_AllClosed ==
    /\ DayEnd
    /\ positions = <<>>
    /\ RealizedProfit # 0

\* a position is closed on a later day than the one it was opened on
NoSellAfterBuySameDay ==
    \A i \in BuyIndexes : \A j \in SellIndexes :
        (trades[i].symbol = trades[j].symbol /\ i < j) => trades[i].date < trades[j].date

\* C40: the ledger has no buy of a symbol dated on a day on which the symbol
\* was sold, and no sell of a symbol dated on the day of the buy that opened
\* the position.
C40_NoSameDayRoundTrip ==
    /\ \A i \in SellIndexes : \A j \in BuyIndexes :
          trades[i].symbol = trades[j].symbol => trades[i].date # trades[j].date
    /\ NoSellAfterBuySameDay

====
